---- MODULE Spec2Model ----
(***************************************************************************)
(* Image batch processor (phase_2/image_batch_processor): the retry loop   *)
(* of BatchProcessor, the file helpers it relies on, and the five-stage    *)
(* ImageBatchProcessorFlow that drives it.                                 *)
(*                                                                         *)
(* File names are sequences of one-character strings, so that suffix,      *)
(* stem, lower-casing and sorting are computed as pathlib computes them.   *)
(* Optional values are sequences of length 0 (None) or 1 (a value).        *)
(***************************************************************************)
EXTENDS Integers, Sequences, FiniteSets, TLC

\* ------------------------------------------------------------------------
\* Bounds of the model
\* ------------------------------------------------------------------------
MaxRetriesBound == 3
MaxEntries == 2
MaxCalls == 2
MaxEngineCalls == 4

\* ------------------------------------------------------------------------
\* Optional values
\* ------------------------------------------------------------------------
None == <<>>
Some(x) == <<x>>

\* ------------------------------------------------------------------------
\* Characters and strings (pathlib / str semantics)
\* ------------------------------------------------------------------------
Alphabet == <<".", "B", "G", "J", "N", "P", "a", "b", "c", "d", "e", "g",
              "i", "j", "m", "n", "o", "p", "t", "x">>

CharCode(c) == CHOOSE i \in 1..Len(Alphabet) : Alphabet[i] = c

Lower(c) ==
    CASE c = "B" -> "b"
      [] c = "G" -> "g"
      [] c = "J" -> "j"
      [] c = "N" -> "n"
      [] c = "P" -> "p"
      [] OTHER -> c

LowerStr(s) == [i \in 1..Len(s) |-> Lower(s[i])]

\* str.rfind('.') + 1, or 0 when the name has no dot
LastDot(name) ==
    IF \E i \in 1..Len(name) : name[i] = "."
    THEN CHOOSE i \in 1..Len(name) :
            /\ name[i] = "."
            /\ \A j \in (i+1)..Len(name) : name[j] # "."
    ELSE 0

\* PurePath.suffix: the final component's last extension, "" when the only
\* dot is the first or the last character
Suffix(name) ==
    LET i == LastDot(name)
    IN IF 1 < i /\ i < Len(name) THEN SubSeq(name, i, Len(name)) ELSE <<>>

\* mutant: everything from the first dot on is dropped
Stem_FirstDot(name) ==
    IF \E i \in 2..Len(name) : name[i] = "."
    THEN LET i == CHOOSE i \in 2..Len(name) :
                     name[i] = "." /\ \A j \in 2..(i-1) : name[j] # "."
         IN SubSeq(name, 1, i - 1)
    ELSE name

\* PurePath.stem: the final component without its suffix
Stem(name) ==
    LET i == LastDot(name)
    IN IF 1 < i /\ i < Len(name) THEN SubSeq(name, 1, i - 1) ELSE name

\* str.__lt__: lexicographic comparison by code point
StrLess(a, b) ==
    \E k \in 1..(Len(b)) :
        /\ \A j \in 1..(k-1) : j <= Len(a) /\ a[j] = b[j]
        /\ \/ k = Len(a) + 1
           \/ k <= Len(a) /\ CharCode(a[k]) < CharCode(b[k])

\* mutant: the names in decreasing order
RECURSIVE Sorted_Descending(_)
Sorted_Descending(S) ==
    IF S = {} THEN <<>>
    ELSE LET m == CHOOSE x \in S : \A y \in S \ {x} : StrLess(y, x)
         IN <<m>> \o Sorted_Descending(S \ {m})

\* sorted(): the elements of a set of names in increasing order
RECURSIVE Sorted(_)
Sorted(S) ==
    IF S = {} THEN <<>>
    ELSE LET m == CHOOSE x \in S : \A y \in S \ {x} : StrLess(x, y)
         IN <<m>> \o Sorted(S \ {m})

\* ------------------------------------------------------------------------
\* utils/file_utils.py
\* ------------------------------------------------------------------------
DefaultExtensions == << <<".", "j", "p", "g">>, <<".", "j", "p", "e", "g">>,
                        <<".", "p", "n", "g">>, <<".", "t", "i", "f", "f">>,
                        <<".", "b", "m", "p">> >>

\* A directory is [kind |-> "absent" | "file" | "dir", entries |-> set of
\* [name, is_file, children]].  discover_images raises ValueError unless kind = "dir".
DiscoverRaises(directory) == directory.kind # "dir"

\* mutant: directories with a matching name are listed too
discover_images_NoFileCheck(directory, supported_extensions) ==
    LET normalized_extensions ==
            {LowerStr(supported_extensions[i]) :
                 i \in 1..Len(supported_extensions)}
        image_files ==
            {e.name : e \in {f \in directory.entries :
                 LowerStr(Suffix(f.name)) \in normalized_extensions}}
    IN Sorted(image_files)

discover_images(directory, supported_extensions) ==
    LET normalized_extensions ==
            {LowerStr(supported_extensions[i]) :
                 i \in 1..Len(supported_extensions)}
        image_files ==
            {e.name : e \in {f \in directory.entries :
                 f.is_file /\ LowerStr(Suffix(f.name)) \in normalized_extensions}}
    IN Sorted(image_files)

generate_output_filename(image_name, output_extension) ==
    LET ext == IF Len(output_extension) > 0 /\ output_extension[1] = "."
               THEN output_extension
               ELSE <<".">> \o output_extension
    IN Stem(image_name) \o ext

TxtExtension == <<".", "t", "x", "t">>

\* mutant: mkdir without parents=True
ensure_output_directory_NoParents(directory) ==
    IF directory.kind = "dir" \/ directory.parent # "dir" THEN directory
    ELSE [directory EXCEPT !.kind = "dir"]

\* ensure_output_directory raises ValueError when the path is a file
EnsureRaises(directory) == directory.kind = "file"

\* ensure_output_directory otherwise: an existing directory is left alone, a
\* missing one is created with its missing parents
ensure_output_directory(directory) ==
    IF directory.kind = "dir" THEN directory
    ELSE [directory EXCEPT !.kind = "dir", !.parent = "dir"]

\* save_text_to_file: Path.write_text replaces the content of the file.
\* files is a set of [name, text] with at most one record per name.
\* mutant: the write replaces the contents of the directory
WriteFile_ReplacesAll(files, name, text) == {[name |-> name, text |-> text]}

\* Path.write_text: the file is created or overwritten, the others are kept
WriteFile(files, name, text) ==
    {f \in files : f.name # name} \cup {[name |-> name, text |-> text]}

\* ------------------------------------------------------------------------
\* Values drawn by the environment
\* ------------------------------------------------------------------------
Messages == {"m1", "m2"}

EmptyText == [body |-> "", of |-> <<>>]
SomeText == [body |-> "text", of |-> <<>>]
\* MockEngine.extract_text of the unit tests: a text naming the image
MockText(name) == [body |-> "mock", of |-> name]
\* PassthroughEngine.extract_text: a dummy text naming the image
DummyText(name) == [body |-> "dummy", of |-> name]

Name_a_jpg == <<"a", ".", "j", "p", "g">>
Name_B_PNG == <<"B", ".", "P", "N", "G">>
Name_a_png == <<"a", ".", "p", "n", "g">>
Name_c_txt == <<"c", ".", "t", "x", "t">>
Name_d_jpg == <<"d", ".", "j", "p", "g">>
Name_a_txt == <<"a", ".", "t", "x", "t">>
Name_e_png == <<"e", ".", "p", "n", "g">>

\* an entry of a directory: children are the entries of a subdirectory
File(name) == [name |-> name, is_file |-> TRUE, children |-> {}]
Subdirectory(name, names) == [name |-> name, is_file |-> FALSE, children |-> names]

CandidateEntries ==
    { File(Name_a_jpg), File(Name_B_PNG), File(Name_a_png), File(Name_c_txt),
      Subdirectory(Name_d_jpg, {Name_e_png}) }

InputDirectories ==
    { [kind |-> "absent", entries |-> {}], [kind |-> "file", entries |-> {}] }
    \cup { [kind |-> "dir", entries |-> E] :
             E \in {X \in SUBSET CandidateEntries : Cardinality(X) <= MaxEntries} }

\* The output path is [kind |-> "absent" | "file" | "dir", files |-> set of
\* [name, text], parent |-> "absent" | "dir" (its parent directory), faulty |->
\* whether a write on its file system can fail].
OutputDirectory(kind, files, parent, faulty) ==
    [kind |-> kind, files |-> files, parent |-> parent, faulty |-> faulty]

OutputDirectories ==
    { OutputDirectory("absent", {}, "dir", TRUE),
      OutputDirectory("file", {}, "dir", TRUE),
      OutputDirectory("dir", {}, "dir", TRUE),
      OutputDirectory("dir", {[name |-> Name_a_txt, text |-> SomeText]}, "dir", TRUE) }

\* supported_extensions arguments given to BatchProcessor (None: the default)
ExtensionArgs == { None, Some(<< <<".", "J", "P", "G">> >>) }

\* ------------------------------------------------------------------------
\* State
\* ------------------------------------------------------------------------
VARIABLES
    image_dir,      \* the input directory on disk
    output_dir,     \* the output directory on disk
    clock,          \* time.time()
    processor,      \* None, or Some(BatchProcessor fields)
    pc,             \* position inside BatchProcessor.process_batch
    image_files,    \* process_batch: the discovered images
    idx,            \* process_batch: number of images handed to process_single_image
    results,        \* process_batch: accumulated ProcessingResults
    successful,     \* process_batch: counter
    failed,         \* process_batch: counter
    batch_start_time,
    report,         \* None, or Some(BatchReport) returned by process_batch
    attempt,        \* process_single_image: loop variable
    last_error,     \* process_single_image: None or Some(message)
    start_time,     \* process_single_image
    hist,           \* what happened in each attempt for the current image
    log,            \* every extract_text call and every time.sleep call, in order
    calls,          \* number of process_batch calls made so far
    flow_pc,        \* position of the ImageBatchProcessorFlow run ("none": no flow)
    state,          \* BatchProcessorState
    flow_engine,    \* ImageBatchProcessorFlow.engine: None or Some(engine)
    stage_log,      \* the stages started so far, in order
    flow_error,     \* None, or Some(exception type) raised out of the run
    flow_result,    \* None, or Some(BatchReport) returned by generate_report
    registry,       \* EngineFactory._ENGINE_REGISTRY: the registered tags, in order
    validate_calls, \* number of validate_config calls made on engines
    call,           \* a library function called on its own: its name and arguments
    ret             \* None, or Some(what that call returned or raised)

procVars == <<processor, pc, image_files, idx, results, successful, failed,
              batch_start_time, report, attempt, last_error, start_time>>
envVars == <<image_dir, output_dir, clock>>
logVars == <<hist, log, calls>>
flowVars == <<flow_pc, state, flow_engine, stage_log, flow_error, flow_result>>
libVars == <<registry, validate_calls, call, ret>>
vars == <<image_dir, output_dir, clock, processor, pc, image_files, idx, results,
          successful, failed, batch_start_time, report, attempt, last_error,
          start_time, hist, log, calls, flow_pc, state, flow_engine, stage_log,
          flow_error, flow_result, registry, validate_calls, call, ret>>

\* ------------------------------------------------------------------------
\* core/models.py
\* ------------------------------------------------------------------------
ProcessingResult(image_path, success, output_path, error, attempts, processing_time) ==
    [image_path |-> image_path, success |-> success, output_path |-> output_path,
     error |-> error, attempts |-> attempts, processing_time |-> processing_time]

BatchReport(total_images, n_successful, n_failed, processing_time, rs) ==
    [total_images |-> total_images, successful |-> n_successful,
     failed |-> n_failed, processing_time |-> processing_time, results |-> rs]

\* a float that is the quotient of two integers; 0.0 is Quotient(0, 1)
Quotient(num, den) == [raised |-> None, num |-> num, den |-> den]

\* mutant: no guard against an empty batch
success_rate_NoGuard(r) ==
    IF r.total_images = 0
    THEN [raised |-> Some("ZeroDivisionError"), num |-> 0, den |-> 0]
    ELSE Quotient(r.successful, r.total_images)

\* mutant: an empty batch counts as fully successful
success_rate_OneWhenEmpty(r) ==
    IF r.total_images = 0 THEN Quotient(1, 1)
    ELSE Quotient(r.successful, r.total_images)

\* BatchReport.success_rate
success_rate(r) ==
    IF r.total_images = 0 THEN Quotient(0, 1)
    ELSE Quotient(r.successful, r.total_images)

\* Paths: a directory tag and a file name
InPath(name) == [dir |-> "image_dir", name |-> name]
OutPath(name) == [dir |-> "output_dir", name |-> name]

\* ------------------------------------------------------------------------
\* engines: what one extract_text call can do
\* ------------------------------------------------------------------------
Returned(text) == [kind |-> "ok", text |-> text, msg |-> ""]
Raised(kind, msg) == [kind |-> kind, text |-> EmptyText, msg |-> msg]

ExtractOutcomes(engine, name) ==
    CASE engine.type = "passthrough" -> {Returned(DummyText(name))}
      [] engine.type = "docling" ->
            {Returned(t) : t \in {EmptyText, SomeText}}
            \cup {Raised("ExtractionError", m) : m \in Messages}
      [] engine.type \in {"llm", "api"} -> {Raised("Exception", "NotImplementedError")}
      [] engine.type = "deterministic" ->
            IF name \in engine.fails
            THEN {Raised("ExtractionError", "m1")}
            ELSE {Returned(MockText(name))}
      [] OTHER ->
            {Returned(MockText(name))}
            \cup {Raised("ExtractionError", m) : m \in Messages}
            \cup {Raised("Exception", "unexpected")}

\* what one save_text_to_file call can do: write the file, or raise OSError
\* when the file cannot be opened for writing
WriteOutcomes == {[kind |-> "ok", msg |-> ""], [kind |-> "OSError", msg |-> "OSError"]}

\* the outcomes of a write into the given output directory
WritesOn(directory) ==
    IF directory.faulty THEN WriteOutcomes ELSE {[kind |-> "ok", msg |-> ""]}

\* ------------------------------------------------------------------------
\* core/processor.py
\* ------------------------------------------------------------------------
BatchProcessorInit(engine, max_retries, supported_extensions) ==
    [engine |-> engine, max_retries |-> max_retries,
     supported_extensions |-> IF supported_extensions = None \/ supported_extensions[1] = <<>>
                              THEN DefaultExtensions
                              ELSE supported_extensions[1]]

\* mutant: the loop runs once more than max_retries
LoopContinues_OneMore(a, max_retries) == a <= max_retries + 1

\* range(1, self.max_retries + 1): the loop runs for this attempt number
LoopContinues(a, max_retries) == a <= max_retries

\* mutant: only ExtractionError is caught, anything else leaves the loop
Caught_OnlyExtractionError(kind) == kind = "ExtractionError"

\* mutant: a failed write is not caught
Caught_NotOSError(kind) == kind \in {"ExtractionError", "Exception"}

\* except ExtractionError / except Exception: the exceptions of an attempt
\* that the loop catches
Caught(kind) == kind \in {"ExtractionError", "Exception", "OSError"}

\* mutant: no backoff after an unexpected exception
AttemptsRemain_OnlyExtractionError(kind, a, max_retries) ==
    kind = "ExtractionError" /\ a < max_retries

\* mutant: no backoff after a failed write
AttemptsRemain_NotAfterWrite(kind, a, max_retries) ==
    kind # "OSError" /\ a < max_retries

\* both except branches: a backoff follows a failed attempt if attempts remain
AttemptsRemain(kind, a, max_retries) == a < max_retries

\* mutant: the exponent is the attempt number
WaitTime_Double(a) == 2 ^ a

\* Exponential backoff: 2^(attempt-1) seconds
WaitTime(a) == 2 ^ (a - 1)

\* mutant: attempts counted from zero
SuccessResult_ZeroBased(image_path, output_path, a, processing_time) ==
    ProcessingResult(image_path, TRUE, Some(output_path), None, a - 1, processing_time)

\* mutant: an empty error string instead of no error
SuccessResult_EmptyError(image_path, output_path, a, processing_time) ==
    ProcessingResult(image_path, TRUE, Some(output_path), Some(""), a, processing_time)

\* the result returned from inside the loop
SuccessResult(image_path, output_path, a, processing_time) ==
    ProcessingResult(image_path, TRUE, Some(output_path), None, a, processing_time)

\* mutant: the error of the first failed attempt is reported
FailureResult_FirstError(image_path, error, max_retries, processing_time) ==
    ProcessingResult(image_path, FALSE, None,
                     IF hist # <<>> THEN Some(hist[1].msg) ELSE Some("Unknown error"),
                     max_retries, processing_time)

\* mutant: attempts is the zero-based index of the last attempt
FailureResult_LastIndex(image_path, error, max_retries, processing_time) ==
    ProcessingResult(image_path, FALSE, None,
                     IF error # None THEN Some(error[1]) ELSE Some("Unknown error"),
                     max_retries - 1, processing_time)

\* the result returned after the loop
FailureResult(image_path, error, max_retries, processing_time) ==
    ProcessingResult(image_path, FALSE, None,
                     IF error # None THEN Some(error[1]) ELSE Some("Unknown error"),
                     max_retries, processing_time)

\* mutant: the results and counters are kept on the processor across calls
ProcessBatchEnter_Accumulates(proc) ==
    /\ batch_start_time' = clock
    /\ calls' = calls + 1
    /\ IF EnsureRaises(output_dir)
       THEN /\ pc' = "raised"
            /\ UNCHANGED <<output_dir, image_files, idx, results, successful, failed>>
       ELSE /\ output_dir' = ensure_output_directory(output_dir)
            /\ IF DiscoverRaises(image_dir)
               THEN /\ pc' = "raised"
                    /\ UNCHANGED <<image_files, idx, results, successful, failed>>
               ELSE /\ image_files' = discover_images(image_dir, proc.supported_extensions)
                    /\ idx' = 0
                    /\ pc' = "loop"
                    /\ UNCHANGED <<results, successful, failed>>
    /\ UNCHANGED <<image_dir, clock, report, attempt, last_error, start_time, hist, log>>

\* process_batch, from its entry to the start of the loop over the images
\* (processor.py 58-73); proc is the BatchProcessor it is called on
ProcessBatchEnter(proc) ==
    /\ batch_start_time' = clock
    /\ calls' = calls + 1
    /\ IF EnsureRaises(output_dir)
       THEN \* ensure_output_directory raises ValueError
            /\ pc' = "raised"
            /\ UNCHANGED <<output_dir, image_files, idx, results, successful, failed>>
       ELSE /\ output_dir' = ensure_output_directory(output_dir)
            /\ IF DiscoverRaises(image_dir)
               THEN /\ pc' = "raised"
                    /\ UNCHANGED <<image_files, idx, results, successful, failed>>
               ELSE /\ image_files' = discover_images(image_dir, proc.supported_extensions)
                    /\ results' = <<>>
                    /\ successful' = 0
                    /\ failed' = 0
                    /\ idx' = 0
                    /\ pc' = "loop"
    /\ UNCHANGED <<image_dir, clock, report, attempt, last_error, start_time, hist, log>>

\* process_batch called directly on a BatchProcessor
ProcessBatch ==
    /\ flow_pc = "none"
    /\ pc = "idle"
    /\ ProcessBatchEnter(processor[1])
    /\ UNCHANGED <<processor, flowVars, libVars>>

\* the for loop of process_batch takes the next image and enters
\* process_single_image (processor.py 75-78, 120-122)
BeginImage ==
    /\ pc = "loop"
    /\ idx < Len(image_files)
    /\ idx' = idx + 1
    /\ attempt' = 1
    /\ last_error' = None
    /\ start_time' = clock
    /\ hist' = <<>>
    /\ pc' = "attempt"
    /\ UNCHANGED <<envVars, processor, image_files, results, successful, failed,
                   batch_start_time, report, log, calls, flowVars, libVars>>

\* mutant: a failed result is appended but not counted
Accumulate_FailedNotCounted(result) ==
    /\ results' = Append(results, result)
    /\ successful' = IF result.success THEN successful + 1 ELSE successful
    /\ failed' = failed
    /\ pc' = "loop"

\* process_batch appends the result process_single_image returned and counts
\* it (processor.py 79-92)
Accumulate(result) ==
    /\ results' = Append(results, result)
    /\ IF result.success
       THEN successful' = successful + 1 /\ failed' = failed
       ELSE failed' = failed + 1 /\ successful' = successful
    /\ pc' = "loop"

\* one iteration of the retry loop (processor.py 124-169)
Attempt ==
    /\ pc = "attempt"
    /\ LoopContinues(attempt, processor[1].max_retries)
    /\ LET name == image_files[idx]
           out_name == generate_output_filename(name, TxtExtension)
       IN \E e \in ExtractOutcomes(processor[1].engine, name), w \in WritesOn(output_dir) :
          /\ e.kind = "ok" \/ w.kind = "ok"
          /\ LET ok == e.kind = "ok" /\ w.kind = "ok"
                 kind == IF e.kind # "ok" THEN e.kind ELSE "OSError"
                 msg == IF e.kind # "ok" THEN e.msg ELSE w.msg
                 wait == AttemptsRemain(kind, attempt, processor[1].max_retries)
             IN /\ output_dir' =
                      IF ok THEN [output_dir EXCEPT !.files = WriteFile(@, out_name, e.text)]
                      ELSE output_dir
                /\ IF ok
                   THEN /\ Accumulate(SuccessResult(InPath(name), OutPath(out_name),
                                                    attempt, clock - start_time))
                        /\ hist' = Append(hist, [kind |-> "ok", msg |-> ""])
                        /\ log' = Append(log, [op |-> "extract_text", image |-> name, arg |-> attempt])
                        /\ UNCHANGED <<clock, attempt, last_error>>
                   ELSE IF ~Caught(kind)
                   THEN \* the exception leaves process_single_image and process_batch
                        /\ pc' = "raised"
                        /\ hist' = Append(hist, [kind |-> kind, msg |-> msg])
                        /\ log' = Append(log, [op |-> "extract_text", image |-> name, arg |-> attempt])
                        /\ UNCHANGED <<clock, attempt, last_error, results, successful, failed>>
                   ELSE /\ last_error' = Some(msg)
                        /\ hist' = Append(hist, [kind |-> kind, msg |-> msg])
                        /\ attempt' = attempt + 1
                        /\ IF wait
                           THEN /\ clock' = clock + WaitTime(attempt)
                                /\ log' = log \o
                                     <<[op |-> "extract_text", image |-> name, arg |-> attempt],
                                       [op |-> "sleep", image |-> name, arg |-> WaitTime(attempt)]>>
                           ELSE /\ clock' = clock
                                /\ log' = Append(log, [op |-> "extract_text", image |-> name, arg |-> attempt])
                        /\ UNCHANGED <<results, successful, failed, pc>>
    /\ UNCHANGED <<image_dir, processor, image_files, idx, batch_start_time, report,
                   start_time, calls, flowVars, libVars>>

\* the retry loop is over without a return (processor.py 171-180)
Exhausted ==
    /\ pc = "attempt"
    /\ ~LoopContinues(attempt, processor[1].max_retries)
    /\ Accumulate(FailureResult(InPath(image_files[idx]), last_error,
                                processor[1].max_retries, clock - start_time))
    /\ UNCHANGED <<envVars, processor, image_files, idx, batch_start_time, report,
                   attempt, last_error, start_time, logVars, flowVars, libVars>>

\* the loop of process_batch is over: the report is returned (processor.py 94-108)
ProcessBatchReturn ==
    /\ flow_pc = "none"
    /\ pc = "loop"
    /\ idx = Len(image_files)
    /\ report' = Some(BatchReport(Len(image_files), successful, failed,
                                  clock - batch_start_time, results))
    /\ pc' = "returned"
    /\ UNCHANGED <<envVars, processor, image_files, idx, results, successful, failed,
                   batch_start_time, attempt, last_error, start_time, logVars, flowVars,
                   libVars>>

\* ------------------------------------------------------------------------
\* config/settings.py, core/factory.py, engines/*
\* ------------------------------------------------------------------------
EngineTags == {"docling", "llm", "api", "passthrough", "tesseract"}

\* engine_config payloads (dicts), given by the keys they set; "batch_size=0"
\* stands for a batch_size entry that violates ge=1, "max_retries=1" for a
\* max_retries entry of 1
Payloads == { {}, {"model_name", "api_url", "api_key", "max_retries=1"}, {"batch_size=0"} }

\* mutant: the passthrough engine is not registered
ENGINE_REGISTRY_NoPassthrough == <<"docling", "llm", "api">>

ENGINE_REGISTRY == <<"docling", "llm", "api", "passthrough">>

\* list(EngineFactory._ENGINE_REGISTRY.keys())
get_supported_engines == registry

InList(x, list) == \E i \in 1..Len(list) : list[i] = x

\* mutant: the api tag is given an LLMConfig
ConfigVariant_ApiAsLLM(tag) ==
    CASE tag = "docling" -> "DoclingConfig"
      [] tag = "llm" -> "LLMConfig"
      [] tag = "api" -> "LLMConfig"
      [] tag = "passthrough" -> "PassthroughConfig"
      [] OTHER -> "EngineConfig"

\* the config class that goes with a tag
ConfigVariant(tag) ==
    CASE tag = "docling" -> "DoclingConfig"
      [] tag = "llm" -> "LLMConfig"
      [] tag = "api" -> "APIConfig"
      [] tag = "passthrough" -> "PassthroughConfig"
      [] OTHER -> "EngineConfig"

\* pydantic construction of a config variant from a payload: required fields
\* must be present and constrained fields valid, other keys are ignored
ConfigAccepts(variant, payload) ==
    CASE variant = "DoclingConfig" -> "batch_size=0" \notin payload
      [] variant = "LLMConfig" -> "model_name" \in payload
      [] variant = "APIConfig" -> {"api_url", "api_key"} \subseteq payload
      [] OTHER -> TRUE

\* mutant: the payload is taken over without validation
create_engine_config_Unvalidated(engine_type, config_dict) ==
    IF engine_type \in {"docling", "llm", "api", "passthrough"}
    THEN Some([variant |-> ConfigVariant(engine_type), payload |-> config_dict])
    ELSE None

\* ImageBatchProcessorFlow._create_engine_config: None stands for a raised
\* ConfigurationError
create_engine_config(engine_type, config_dict) ==
    IF engine_type \in {"docling", "llm", "api", "passthrough"}
       /\ ConfigAccepts(ConfigVariant(engine_type), config_dict)
    THEN Some([variant |-> ConfigVariant(engine_type), payload |-> config_dict])
    ELSE None

\* the config variants of config/settings.py, by class name
ConfigVariants == {"EngineConfig", "DoclingConfig", "LLMConfig", "APIConfig",
                   "PassthroughConfig"}

\* type(config).__name__
TypeName(config) == config.variant

\* not v or not v.strip(): the blank is the only whitespace of the model
Blank(v) == v = "" \/ v = " "

\* mutant: no model validator, any EngineConfig goes with any tag
BatchProcessorConfig_NoVariantCheck(idir, odir, engine_type, engine_config, max_retries) ==
    LET retries == IF max_retries = None THEN 3 ELSE max_retries[1]
    IN IF \/ Blank(idir) \/ Blank(odir)
          \/ engine_type \notin {"docling", "llm", "api", "passthrough"}
          \/ retries < 0
       THEN [raised |-> Some("ValidationError"), value |-> None]
       ELSE [raised |-> None,
             value |-> Some([image_dir |-> idir, output_dir |-> odir,
                             engine_type |-> engine_type,
                             engine_config |-> engine_config,
                             max_retries |-> retries,
                             supported_extensions |-> DefaultExtensions])]

\* BatchProcessorConfig(...): the field validation (Literal engine_type,
\* max_retries ge=0, non-blank directories), then the model validator that
\* compares the class of engine_config with the one engine_type requires;
\* what the constructor raises or the object it returns
BatchProcessorConfig(idir, odir, engine_type, engine_config, max_retries) ==
    LET retries == IF max_retries = None THEN 3 ELSE max_retries[1]
    IN IF \/ Blank(idir) \/ Blank(odir)
          \/ engine_type \notin {"docling", "llm", "api", "passthrough"}
          \/ retries < 0
       THEN [raised |-> Some("ValidationError"), value |-> None]
       ELSE IF TypeName(engine_config) # ConfigVariant(engine_type)
       THEN [raised |-> Some("ValidationError"), value |-> None]
       ELSE [raised |-> None,
             value |-> Some([image_dir |-> idir, output_dir |-> odir,
                             engine_type |-> engine_type,
                             engine_config |-> engine_config,
                             max_retries |-> retries,
                             supported_extensions |-> DefaultExtensions])]

NewEngine(type, config) == [type |-> type, config |-> config, converter |-> None]

\* an engine given to BatchProcessor directly (any ExtractionEngine)
MockEngine == NewEngine("mock", None)

\* an ExtractionEngine without state whose extract_text fails on the given
\* images, always in the same way, and succeeds on the others
DeterministicEngine(fails) ==
    [type |-> "deterministic", config |-> None, converter |-> None, fails |-> fails]

\* mutant: the constructor initializes the converter
DoclingEngine_Eager(config) ==
    [type |-> "docling", config |-> Some(config), converter |-> Some("converter")]

\* the constructors of the engines
DoclingEngine(config) == NewEngine("docling", Some(config))

LLMEngine(config) == NewEngine("llm", Some(config))

\* mutant: the api tag builds an LLM engine
APIEngine_AsLLM(config) == NewEngine("llm", Some(config))

APIEngine(config) == NewEngine("api", Some(config))

PassthroughEngine(config) == NewEngine("passthrough", Some(config))

\* mutant: the message does not list the registered tags
UnsupportedError_NoList(engine_type, supported) ==
    [type |-> "ValueError", about |-> "Unsupported engine type",
     tag |-> engine_type, supported |-> <<>>, requires |-> "", got |-> ""]

\* the ValueError of an unregistered tag: its message holds the tag and the
\* list of registered tags (<<>>: the message holds no list)
UnsupportedError(engine_type, supported) ==
    [type |-> "ValueError", about |-> "Unsupported engine type",
     tag |-> engine_type, supported |-> supported, requires |-> "", got |-> ""]

\* mutant: the message names only the variant that was given
RequiresError_NamesGiven(engine_type, variant, given) ==
    [type |-> "ValueError", about |-> "requires",
     tag |-> engine_type, supported |-> <<>>, requires |-> given, got |-> given]

\* the ValueError of a config of the wrong variant: its message holds the
\* tag, the variant the tag requires and the variant that was given
RequiresError(engine_type, variant, given) ==
    [type |-> "ValueError", about |-> "requires",
     tag |-> engine_type, supported |-> <<>>, requires |-> variant, got |-> given]

FactoryRaise(error) == [raised |-> Some(error), engine |-> None]
FactoryReturn(engine) == [raised |-> None, engine |-> Some(engine)]

\* EngineFactory.create_engine: what it raises or returns
EngineFactory_create_engine(engine_type, config) ==
    IF ~InList(engine_type, registry)
    THEN FactoryRaise(UnsupportedError(engine_type, registry))
    ELSE IF engine_type = "docling"
    THEN IF TypeName(config) # "DoclingConfig"
         THEN FactoryRaise(RequiresError("docling", "DoclingConfig", TypeName(config)))
         ELSE FactoryReturn(DoclingEngine(config))
    ELSE IF engine_type = "llm"
    THEN IF TypeName(config) # "LLMConfig"
         THEN FactoryRaise(RequiresError("llm", "LLMConfig", TypeName(config)))
         ELSE FactoryReturn(LLMEngine(config))
    ELSE IF engine_type = "api"
    THEN IF TypeName(config) # "APIConfig"
         THEN FactoryRaise(RequiresError("api", "APIConfig", TypeName(config)))
         ELSE FactoryReturn(APIEngine(config))
    ELSE IF engine_type = "passthrough"
    THEN IF TypeName(config) # "PassthroughConfig"
         THEN FactoryRaise(RequiresError("passthrough", "PassthroughConfig", TypeName(config)))
         ELSE FactoryReturn(PassthroughEngine(config))
    ELSE FactoryRaise(UnsupportedError(engine_type, <<>>))

\* EngineFactory.create_engine as the flow sees it: None stands for a raised
\* ValueError
factory_create_engine(engine_type, config) ==
    EngineFactory_create_engine(engine_type, config).engine

\* mutant: the converter is built on every call
initialize_converter_NoCache(engine) ==
    { [raised |-> None, built |-> TRUE,
       engine |-> [engine EXCEPT !.converter = Some("converter")]],
      [raised |-> Some("ConfigurationError"), built |-> FALSE, engine |-> engine] }

\* DoclingEngine._initialize_converter: the cached converter is returned if
\* there is one; otherwise DocumentConverter(...) is constructed and cached,
\* or its failure is raised as ConfigurationError with the cache left empty.
\* built: a DocumentConverter was constructed
initialize_converter(engine) ==
    IF engine.converter # None
    THEN {[raised |-> None, built |-> FALSE, engine |-> engine]}
    ELSE { [raised |-> None, built |-> TRUE,
            engine |-> [engine EXCEPT !.converter = Some("converter")]],
           [raised |-> Some("ConfigurationError"), built |-> FALSE, engine |-> engine] }

\* mutant: the validate_config of the llm and api engines returns True
ValidateOutcomes_StubsPass(engine) ==
    CASE engine.type = "passthrough" -> {[ok |-> TRUE, engine |-> engine]}
      [] engine.type = "docling" ->
            {[ok |-> i.raised = None, engine |-> i.engine] : i \in initialize_converter(engine)}
      [] OTHER -> {[ok |-> TRUE, engine |-> engine]}

\* engine.validate_config(): the engines it can leave behind; the empty set
\* stands for a raised exception only
ValidateOutcomes(engine) ==
    CASE engine.type = "passthrough" -> {[ok |-> TRUE, engine |-> engine]}
      [] engine.type = "docling" ->
            {[ok |-> i.raised = None, engine |-> i.engine] : i \in initialize_converter(engine)}
      [] OTHER -> {[ok |-> FALSE, engine |-> engine]}

\* ------------------------------------------------------------------------
\* flow/state.py, flow/batch_flow.py
\* ------------------------------------------------------------------------
FlowMaxRetries == 3

InitialState(engine_type, engine_config) ==
    [image_dir |-> "image_dir", output_dir |-> "output_dir",
     engine_type |-> engine_type, engine_config |-> engine_config,
     total_images |-> 0, processed_images |-> 0, successful |-> 0, failed |-> 0,
     results |-> <<>>]

\* the position of the run once a stage method has completed
Completed(stage) ==
    CASE stage = "initialize" -> "initialized"
      [] stage = "create_engine" -> "engine_created"
      [] stage = "discover" -> "discovered"
      [] stage = "process" -> "processed"
      [] OTHER -> "reported"

\* mutant: discover listens to initialize_workflow
Listen_DiscoverAfterInitialize(stage) ==
    CASE stage = "create_engine" -> "initialize"
      [] stage = "discover" -> "initialize"
      [] stage = "process" -> "discover"
      [] OTHER -> "process"

\* @listen(...): the stage whose completion triggers the given stage
Listen(stage) ==
    CASE stage = "create_engine" -> "initialize"
      [] stage = "discover" -> "create_engine"
      [] stage = "process" -> "discover"
      [] OTHER -> "process"

\* mutant: generate_report listens to nothing
Triggered_ReportNeverFires(stage) ==
    IF stage = "initialize" THEN flow_pc = "start"
    ELSE stage # "report" /\ flow_pc = Completed(Listen(stage))

\* @start() runs at kickoff, a listener when the method it listens to completes
Triggered(stage) ==
    IF stage = "initialize" THEN flow_pc = "start"
    ELSE flow_pc = Completed(Listen(stage))

\* mutant: the error is recorded but the listeners of the stage still fire
Abort_ListenersStillFire(error) ==
    /\ flow_pc' = "engine_created"
    /\ flow_error' = Some(error)

\* an exception raised out of a stage method ends the run
Abort(error) ==
    /\ flow_pc' = "aborted"
    /\ flow_error' = Some(error)

\* mutant: the output path is not validated
InitializeFails_NoOutputCheck ==
    \/ image_dir.kind = "absent"
    \/ image_dir.kind # "dir"
    \/ ~InList(state.engine_type, get_supported_engines)
    \/ Len(discover_images(image_dir, DefaultExtensions)) = 0

\* the conditions under which initialize_workflow raises ValidationError
InitializeFails ==
    \/ image_dir.kind = "absent"
    \/ image_dir.kind # "dir"
    \/ ~InList(state.engine_type, get_supported_engines)
    \/ Len(discover_images(image_dir, DefaultExtensions)) = 0
    \/ output_dir.kind = "file"

\* @start() initialize_workflow
InitializeWorkflow ==
    /\ Triggered("initialize")
    /\ stage_log' = Append(stage_log, "initialize")
    /\ IF InitializeFails
       THEN Abort("ValidationError")
       ELSE flow_pc' = Completed("initialize") /\ flow_error' = flow_error
    /\ UNCHANGED <<envVars, procVars, logVars, state, flow_engine, flow_result, libVars>>

\* @listen(initialize_workflow) create_engine
CreateEngine ==
    /\ Triggered("create_engine")
    /\ stage_log' = Append(stage_log, "create_engine")
    /\ LET config == create_engine_config(state.engine_type, state.engine_config)
           made == IF config = None THEN None
                   ELSE factory_create_engine(state.engine_type, config[1])
       IN IF made = None
          THEN /\ Abort("ConfigurationError")
               /\ flow_engine' = flow_engine
               /\ validate_calls' = validate_calls
          ELSE \E v \in ValidateOutcomes(made[1]) :
                  /\ flow_engine' = Some(v.engine)
                  /\ validate_calls' = validate_calls + 1
                  /\ IF v.ok
                     THEN flow_pc' = Completed("create_engine") /\ flow_error' = flow_error
                     ELSE Abort("ConfigurationError")
    /\ UNCHANGED <<envVars, procVars, logVars, state, flow_result, registry, call, ret>>

\* mutant: discover also sets processed_images
DiscoverImages_SetsProcessed ==
    /\ Triggered("discover")
    /\ stage_log' = Append(stage_log, "discover")
    /\ IF DiscoverRaises(image_dir)
       THEN Abort("ValueError") /\ state' = state
       ELSE /\ state' = [state EXCEPT
                            !.total_images =
                                Len(discover_images(image_dir, DefaultExtensions)),
                            !.processed_images =
                                Len(discover_images(image_dir, DefaultExtensions))]
            /\ flow_pc' = Completed("discover")
            /\ flow_error' = flow_error
    /\ UNCHANGED <<envVars, procVars, logVars, flow_engine, flow_result, libVars>>

\* @listen(create_engine) discover_images
DiscoverImages ==
    /\ Triggered("discover")
    /\ stage_log' = Append(stage_log, "discover")
    /\ IF DiscoverRaises(image_dir)
       THEN Abort("ValueError") /\ state' = state
       ELSE /\ state' = [state EXCEPT !.total_images =
                            Len(discover_images(image_dir, DefaultExtensions))]
            /\ flow_pc' = Completed("discover")
            /\ flow_error' = flow_error
    /\ UNCHANGED <<envVars, procVars, logVars, flow_engine, flow_result, libVars>>

\* mutant: max_retries is taken from the payload when it has one
ProcessImages_RetriesFromPayload ==
    /\ Triggered("process")
    /\ stage_log' = Append(stage_log, "process")
    /\ LET m == IF "max_retries=1" \in state.engine_config THEN 1 ELSE FlowMaxRetries
       IN /\ processor' = Some(BatchProcessorInit(flow_engine[1], m, None))
          /\ ProcessBatchEnter(BatchProcessorInit(flow_engine[1], m, None))
    /\ IF pc' = "raised"
       THEN Abort("ValueError")
       ELSE flow_pc' = "processing" /\ flow_error' = flow_error
    /\ UNCHANGED <<state, flow_engine, flow_result, libVars>>

\* @listen(discover_images) process_images, up to the loop of process_batch
ProcessImages ==
    /\ Triggered("process")
    /\ stage_log' = Append(stage_log, "process")
    /\ processor' = Some(BatchProcessorInit(flow_engine[1], FlowMaxRetries, None))
    /\ ProcessBatchEnter(BatchProcessorInit(flow_engine[1], FlowMaxRetries, None))
    /\ IF pc' = "raised"
       THEN Abort("ValueError")
       ELSE flow_pc' = "processing" /\ flow_error' = flow_error
    /\ UNCHANGED <<state, flow_engine, flow_result, libVars>>

\* mutant: the dict form carries no error
ResultToDict_NoError(result) ==
    [image_path |-> result.image_path, success |-> result.success,
     output_path |-> result.output_path, error |-> None,
     attempts |-> result.attempts, processing_time |-> result.processing_time]

\* the dict stored in state.results for one ProcessingResult (batch_flow.py 192-202)
ResultToDict(result) ==
    [image_path |-> result.image_path, success |-> result.success,
     output_path |-> result.output_path, error |-> result.error,
     attempts |-> result.attempts, processing_time |-> result.processing_time]

\* mutant: processed_images counts the successful images only
ProcessImagesFinish_ProcessedIsSuccessful ==
    /\ flow_pc = "processing"
    /\ pc = "loop"
    /\ idx = Len(image_files)
    /\ LET batch_report == BatchReport(Len(image_files), successful, failed,
                                       clock - batch_start_time, results)
       IN /\ report' = Some(batch_report)
          /\ state' = [state EXCEPT
                         !.processed_images = batch_report.successful,
                         !.successful = batch_report.successful,
                         !.failed = batch_report.failed,
                         !.results = [i \in 1..Len(batch_report.results) |->
                                         ResultToDict(batch_report.results[i])]]
    /\ pc' = "returned"
    /\ flow_pc' = Completed("process")
    /\ UNCHANGED <<envVars, processor, image_files, idx, results, successful, failed,
                   batch_start_time, attempt, last_error, start_time, logVars,
                   flow_engine, stage_log, flow_error, flow_result, libVars>>

\* process_images, from the return of process_batch on (batch_flow.py 184-207)
ProcessImagesFinish ==
    /\ flow_pc = "processing"
    /\ pc = "loop"
    /\ idx = Len(image_files)
    /\ LET batch_report == BatchReport(Len(image_files), successful, failed,
                                       clock - batch_start_time, results)
       IN /\ report' = Some(batch_report)
          /\ state' = [state EXCEPT
                         !.processed_images = batch_report.total_images,
                         !.successful = batch_report.successful,
                         !.failed = batch_report.failed,
                         !.results = [i \in 1..Len(batch_report.results) |->
                                         ResultToDict(batch_report.results[i])]]
    /\ pc' = "returned"
    /\ flow_pc' = Completed("process")
    /\ UNCHANGED <<envVars, processor, image_files, idx, results, successful, failed,
                   batch_start_time, attempt, last_error, start_time, logVars,
                   flow_engine, stage_log, flow_error, flow_result, libVars>>

\* the ProcessingResult rebuilt from a dict of state.results (batch_flow.py 221-231)
DictToResult(r) ==
    ProcessingResult(r.image_path, r.success, r.output_path, r.error, r.attempts,
                     r.processing_time)

RECURSIVE SumTimes(_)
SumTimes(rs) ==
    IF rs = <<>> THEN 0 ELSE rs[1].processing_time + SumTimes(Tail(rs))

\* @listen(process_images) generate_report
GenerateReport ==
    /\ Triggered("report")
    /\ stage_log' = Append(stage_log, "report")
    /\ LET rs == [i \in 1..Len(state.results) |-> DictToResult(state.results[i])]
       IN flow_result' = Some(BatchReport(state.total_images, state.successful,
                                          state.failed, SumTimes(rs), rs))
    /\ flow_pc' = Completed("report")
    /\ UNCHANGED <<envVars, procVars, logVars, state, flow_engine, flow_error, libVars>>

\* ------------------------------------------------------------------------
\* Specification
\* ------------------------------------------------------------------------
\* no call has been made yet
InitProgram ==
    /\ clock = 0
    /\ pc = "idle"
    /\ image_files = <<>>
    /\ idx = 0
    /\ results = <<>>
    /\ successful = 0
    /\ failed = 0
    /\ batch_start_time = 0
    /\ report = None
    /\ attempt = 0
    /\ last_error = None
    /\ start_time = 0
    /\ hist = <<>>
    /\ log = <<>>
    /\ calls = 0
    /\ flow_engine = None
    /\ stage_log = <<>>
    /\ flow_error = None
    /\ flow_result = None
    /\ registry = ENGINE_REGISTRY
    /\ validate_calls = 0
    /\ ret = None

InitCommon ==
    /\ InitProgram
    /\ image_dir \in InputDirectories
    /\ output_dir \in OutputDirectories
    /\ call = None

\* a BatchProcessor constructed by a caller, before process_batch
InitDirect ==
    /\ InitCommon
    /\ flow_pc = "none"
    /\ processor \in {Some(BatchProcessorInit(MockEngine, m, x)) :
                         m \in 0..MaxRetriesBound, x \in ExtensionArgs}
    /\ state = InitialState("docling", {})

\* an ImageBatchProcessorFlow with its initial state set, before kickoff
InitFlow ==
    /\ InitCommon
    /\ flow_pc = "start"
    /\ processor = None
    /\ state \in {InitialState(t, p) : t \in EngineTags, p \in Payloads}

Init == InitDirect \/ InitFlow

Next ==
    \/ ProcessBatch
    \/ BeginImage
    \/ Attempt
    \/ Exhausted
    \/ ProcessBatchReturn
    \/ InitializeWorkflow
    \/ CreateEngine
    \/ DiscoverImages
    \/ ProcessImages
    \/ ProcessImagesFinish
    \/ GenerateReport

Spec == Init /\ [][Next]_vars

\* ------------------------------------------------------------------------
\* One BatchProcessor with an engine without state, on a file system whose
\* writes succeed, called up to MaxCalls times
\* ------------------------------------------------------------------------
\* A DoclingEngine instance used by a caller on its own: any sequence of up
\* to MaxEngineCalls validate_config and extract_text calls; flow_engine is
\* the instance, log the calls and the DocumentConverter constructions
InitEngine ==
    /\ InitProgram
    /\ flow_pc = "none"
    /\ processor = None
    /\ state = InitialState("docling", {})
    /\ call = None
    /\ image_dir = [kind |-> "dir", entries |-> {File(Name_a_jpg)}]
    /\ output_dir = OutputDirectory("absent", {}, "dir", TRUE)

\* DoclingEngine(config)
EngineNew ==
    /\ flow_engine = None
    /\ \E c \in {x \in [variant : {"DoclingConfig"}, payload : Payloads] :
                     ConfigAccepts(x.variant, x.payload)} :
          flow_engine' = Some(DoclingEngine(c))
    /\ UNCHANGED <<envVars, procVars, logVars, flow_pc, state, stage_log, flow_error,
                   flow_result, libVars>>

Constructions(i) ==
    IF i.built THEN <<[op |-> "DocumentConverter", image |-> <<>>, arg |-> calls + 1]>>
    ELSE <<>>

\* DoclingEngine.validate_config()
EngineValidateConfig ==
    /\ flow_engine # None
    /\ calls < MaxEngineCalls
    /\ calls' = calls + 1
    /\ call' = Some([op |-> "validate_config"])
    /\ \E i \in initialize_converter(flow_engine[1]) :
          /\ flow_engine' = Some(i.engine)
          /\ log' = log \o <<[op |-> "validate_config", image |-> <<>>, arg |-> calls + 1]>>
                        \o Constructions(i)
          /\ ret' = IF i.raised = None THEN Some([kind |-> "ok", text |-> EmptyText, msg |-> "True"])
                    ELSE Some(Raised("ConfigurationError", "m1"))
    /\ UNCHANGED <<envVars, procVars, hist, flow_pc, state, stage_log, flow_error,
                   flow_result, registry, validate_calls>>

\* DoclingEngine.extract_text(image_path): the converter is initialized
\* first (a ConfigurationError is raised as it is), then the image converted
EngineExtractText ==
    /\ flow_engine # None
    /\ calls < MaxEngineCalls
    /\ calls' = calls + 1
    /\ call' = Some([op |-> "extract_text"])
    /\ \E i \in initialize_converter(flow_engine[1]) :
          /\ flow_engine' = Some(i.engine)
          /\ log' = log \o <<[op |-> "extract_text", image |-> Name_a_jpg, arg |-> calls + 1]>>
                        \o Constructions(i)
          /\ IF i.raised # None
             THEN ret' = Some(Raised("ConfigurationError", "m1"))
             ELSE \E e \in ExtractOutcomes(i.engine, Name_a_jpg) : ret' = Some(e)
    /\ UNCHANGED <<envVars, procVars, hist, flow_pc, state, stage_log, flow_error,
                   flow_result, registry, validate_calls>>

NextEngine == EngineNew \/ EngineValidateConfig \/ EngineExtractText

SpecEngine == InitEngine /\ [][NextEngine]_vars

\* A pipeline run on its own: kickoff() runs the stage methods one after the
\* other on the calling thread, and every call they make returns or raises, so
\* a step that can be taken is taken
NextPipeline ==
    \/ InitializeWorkflow
    \/ CreateEngine
    \/ DiscoverImages
    \/ ProcessImages
    \/ BeginImage
    \/ Attempt
    \/ Exhausted
    \/ ProcessImagesFinish
    \/ GenerateReport

SpecPipeline == InitFlow /\ [][NextPipeline]_vars /\ WF_vars(NextPipeline)

BatchOutputDirectories ==
    { OutputDirectory("absent", {}, "dir", FALSE),
      OutputDirectory("absent", {}, "absent", FALSE),
      OutputDirectory("file", {}, "dir", FALSE),
      OutputDirectory("dir", {}, "dir", FALSE),
      OutputDirectory("dir", {[name |-> Name_a_txt, text |-> SomeText],
                              [name |-> Name_c_txt, text |-> SomeText]}, "dir", FALSE) }

InitBatch ==
    /\ InitProgram
    /\ flow_pc = "none"
    /\ state = InitialState("docling", {})
    /\ call = None
    /\ image_dir \in InputDirectories
    /\ output_dir \in BatchOutputDirectories
    /\ processor \in {Some(BatchProcessorInit(DeterministicEngine(f), m, None)) :
                         f \in SUBSET {Name_a_jpg, Name_B_PNG}, m \in 0..MaxRetriesBound}

\* process_batch called once more on the same BatchProcessor
ProcessBatchAgain ==
    /\ flow_pc = "none"
    /\ pc \in {"returned", "raised"}
    /\ calls < MaxCalls
    /\ ProcessBatchEnter(processor[1])
    /\ UNCHANGED <<processor, flowVars, libVars>>

\* the caller reads report.success_rate() of the report it was handed
ReportSuccessRate ==
    /\ flow_pc = "none"
    /\ pc = "returned"
    /\ report # None
    /\ call # Some([op |-> "success_rate", report |-> report[1]])
    /\ call' = Some([op |-> "success_rate", report |-> report[1]])
    /\ ret' = Some(success_rate(report[1]))
    /\ UNCHANGED <<envVars, procVars, logVars, flowVars, registry, validate_calls>>

NextBatch ==
    \/ ProcessBatch
    \/ ProcessBatchAgain
    \/ ReportSuccessRate
    \/ BeginImage
    \/ Attempt
    \/ Exhausted
    \/ ProcessBatchReturn

SpecBatch == InitBatch /\ [][NextBatch]_vars

\* ------------------------------------------------------------------------
\* The functions of core/factory.py and utils/file_utils.py called on their
\* own, as the unit tests call them
\* ------------------------------------------------------------------------
Name_a_b_png == <<"a", ".", "b", ".", "p", "n", "g">>
Name_ab == <<"a", "b">>
Name_dot_jpg == <<".", "j", "p", "g">>

\* config values a caller can pass to the factory
LibConfigs ==
    {c \in [variant : ConfigVariants, payload : Payloads] :
        ConfigAccepts(c.variant, c.payload)}

LibDirectories ==
    { [kind |-> "absent", entries |-> {}], [kind |-> "file", entries |-> {}] }
    \cup { [kind |-> "dir", entries |-> E] :
             E \in {X \in SUBSET (CandidateEntries
                                   \cup {File(Name_a_b_png), File(Name_ab),
                                         File(Name_dot_jpg)}) :
                       Cardinality(X) <= MaxEntries} }

\* supported_extensions arguments of discover_images
LibExtensionLists ==
    { <<>>,
      << <<".", "J", "P", "G">> >>,
      << <<".", "j", "p", "g">>, <<".", "p", "n", "g">> >>,
      << <<".", "p", "n", "g">>, <<".", "P", "N", "G">> >>,
      DefaultExtensions }

LibNames == {Name_a_jpg, Name_B_PNG, Name_a_b_png, Name_ab, Name_dot_jpg}

\* output_extension arguments of generate_output_filename (None: not given)
LibOutputExtensions ==
    { None, Some(<<".", "m", "d">>), Some(<<"m", "d">>), Some(<<"t", "x", "t">>),
      Some(<<>>) }

\* image_dir and output_dir arguments of BatchProcessorConfig
LibDirArgs == {"", " ", "/path"}

\* max_retries arguments of BatchProcessorConfig; None: not given
LibRetriesArgs == {None} \cup {Some(m) : m \in -1..MaxRetriesBound}

InitLib ==
    /\ InitProgram
    /\ flow_pc = "none"
    /\ processor = None
    /\ state = InitialState("docling", {})
    /\ output_dir = OutputDirectory("absent", {}, "dir", TRUE)
    /\ \/ /\ image_dir = [kind |-> "absent", entries |-> {}]
          /\ \E t \in EngineTags, c \in LibConfigs :
                call = Some([op |-> "create_engine", engine_type |-> t, config |-> c])
       \/ /\ image_dir = [kind |-> "absent", entries |-> {}]
          /\ call = Some([op |-> "get_supported_engines"])
       \/ /\ image_dir \in LibDirectories
          /\ \E x \in LibExtensionLists :
                call = Some([op |-> "discover_images", supported_extensions |-> x])
       \/ /\ image_dir = [kind |-> "absent", entries |-> {}]
          /\ \E n \in LibNames, x \in LibOutputExtensions :
                call = Some([op |-> "generate_output_filename", image_path |-> n,
                             output_extension |-> x])
       \/ /\ image_dir = [kind |-> "absent", entries |-> {}]
          /\ \E i \in LibDirArgs, o \in LibDirArgs, t \in EngineTags, c \in LibConfigs,
                m \in LibRetriesArgs :
                call = Some([op |-> "BatchProcessorConfig", image_dir |-> i,
                             output_dir |-> o, engine_type |-> t, engine_config |-> c,
                             max_retries |-> m])

\* BatchProcessorConfig(image_dir, output_dir, engine_type, engine_config
\* [, max_retries])
CallBatchProcessorConfig ==
    /\ call # None /\ call[1].op = "BatchProcessorConfig" /\ ret = None
    /\ ret' = Some(BatchProcessorConfig(call[1].image_dir, call[1].output_dir,
                                        call[1].engine_type, call[1].engine_config,
                                        call[1].max_retries))
    /\ UNCHANGED <<envVars, procVars, logVars, flowVars, registry, validate_calls, call>>

Calling(op) == call # None /\ call[1].op = op /\ ret = None

libFrame == <<envVars, procVars, logVars, flowVars, registry, validate_calls, call>>

\* EngineFactory.create_engine(engine_type, config)
CallCreateEngine ==
    /\ Calling("create_engine")
    /\ ret' = Some(EngineFactory_create_engine(call[1].engine_type, call[1].config))
    /\ UNCHANGED libFrame

\* EngineFactory.get_supported_engines()
CallGetSupportedEngines ==
    /\ Calling("get_supported_engines")
    /\ ret' = Some([raised |-> None, value |-> get_supported_engines])
    /\ UNCHANGED libFrame

\* discover_images(directory, supported_extensions)
CallDiscoverImages ==
    /\ Calling("discover_images")
    /\ ret' = IF DiscoverRaises(image_dir)
              THEN Some([raised |-> Some("ValueError"), value |-> <<>>])
              ELSE Some([raised |-> None,
                         value |-> discover_images(image_dir,
                                                   call[1].supported_extensions)])
    /\ UNCHANGED libFrame

\* generate_output_filename(image_path[, output_extension])
CallGenerateOutputFilename ==
    /\ Calling("generate_output_filename")
    /\ LET output_extension == IF call[1].output_extension = None
                               THEN TxtExtension
                               ELSE call[1].output_extension[1]
       IN ret' = Some([raised |-> None,
                       value |-> generate_output_filename(call[1].image_path,
                                                          output_extension)])
    /\ UNCHANGED libFrame

NextLib ==
    \/ CallCreateEngine
    \/ CallGetSupportedEngines
    \/ CallDiscoverImages
    \/ CallGenerateOutputFilename
    \/ CallBatchProcessorConfig

SpecLib == InitLib /\ [][NextLib]_vars

\* ------------------------------------------------------------------------
\* Vocabulary of the properties
\* ------------------------------------------------------------------------
MaxRetries == processor[1].max_retries

\* process_single_image has returned for image number idx and the loop of
\* process_batch has recorded its result; hist describes its attempts
JustReturned == pc \in {"loop", "returned"} /\ idx >= 1 /\ Len(results) = idx

CurrentName == image_files[idx]
CurrentResult == results[idx]

\* number of extract_text calls made for an image
CallsFor(name) ==
    Cardinality({i \in 1..Len(log) : log[i].op = "extract_text" /\ log[i].image = name})

\* the time.sleep arguments issued for an image, in order
RECURSIVE SleepsIn(_, _)
SleepsIn(l, name) ==
    IF l = <<>> THEN <<>>
    ELSE IF l[1].op = "sleep" /\ l[1].image = name
         THEN <<l[1].arg>> \o SleepsIn(Tail(l), name)
         ELSE SleepsIn(Tail(l), name)

\* what extract_text did in an attempt
ExtractFailed(h) == h.kind \in {"ExtractionError", "Exception"}
ExtractReturned(h) == h.kind \in {"ok", "OSError"}

\* extract_text failed in the first k attempts and returned in every later one
FailsThenSucceeds(k) ==
    /\ Len(hist) > k
    /\ \A i \in 1..Len(hist) : IF i <= k THEN ExtractFailed(hist[i])
                                         ELSE ExtractReturned(hist[i])

\* ------------------------------------------------------------------------
\* Retry loop: results of process_single_image
\* ------------------------------------------------------------------------

C2_AlwaysFails ==
    (JustReturned /\ \A i \in 1..Len(hist) : ExtractFailed(hist[i]))
    => /\ ~CurrentResult.success
       /\ CurrentResult.attempts = MaxRetries
       /\ CurrentResult.output_path = None
       /\ CallsFor(CurrentName) = MaxRetries
       /\ Len(hist) = MaxRetries
       /\ MaxRetries >= 1 =>
             \E i \in 1..Len(hist) : CurrentResult.error = Some(hist[i].msg)

C2_Witness ==
    /\ JustReturned /\ MaxRetries = 3 /\ Len(hist) = 3
    /\ \A i \in 1..3 : ExtractFailed(hist[i])
    /\ ~CurrentResult.success /\ CurrentResult.error = Some("m2")

\* C3: in every ProcessingResult, output_path is present iff success is true
\* and error is present iff success is false.
C3_PathAndErrorMatchSuccess ==
    \A i \in 1..Len(results) :
        /\ (results[i].output_path # None) <=> results[i].success
        /\ (results[i].error # None) <=> ~results[i].success

C3_Witness ==
    /\ Len(results) = 2
    /\ results[1].success /\ ~results[2].success
    /\ \E i \in 1..Len(hist) : hist[i].kind = "OSError"

\* C4: every ProcessingResult has 1 <= attempts <= max_retries, for every
\* max_retries >= 0.
C4_AttemptsInRange ==
    \A i \in 1..Len(results) :
        1 <= results[i].attempts /\ results[i].attempts <= MaxRetries

\* ------------------------------------------------------------------------
\* process_batch: aggregation, isolation of failures, order
\* ------------------------------------------------------------------------
CountSuccess(rs, b) == Cardinality({i \in 1..Len(rs) : rs[i].success = b})

\* C5: every BatchReport returned by process_batch has
\* successful + failed = total_images = len(results), successful and failed
\* being the numbers of results with success = true and success = false.
C5_ReportCountsAddUp ==
    report # None =>
        LET r == report[1]
        IN /\ r.successful = CountSuccess(r.results, TRUE)
           /\ r.failed = CountSuccess(r.results, FALSE)
           /\ r.successful + r.failed = r.total_images
           /\ r.total_images = Len(r.results)

C5_Witness ==
    /\ report # None
    /\ report[1].total_images = 2
    /\ report[1].successful = 1
    /\ report[1].failed = 1

\* C6: an image whose attempts all fail, with whatever exception, does not
\* abort the batch: process_batch raises only before the first image, the loop
\* can always go on after a result, and the returned report holds exactly one
\* result per discovered image, a failed one carrying its error.
C6_ItemFailureDoesNotAbort ==
    /\ pc = "raised" => (idx = 0 /\ results = <<>> /\ log = <<>>)
    /\ pc = "loop" => ENABLED (BeginImage \/ ProcessBatchReturn \/ ProcessImagesFinish)
    /\ pc = "attempt" => ENABLED (Attempt \/ Exhausted)
    /\ Len(results) <= Len(image_files)
    /\ \A i \in 1..Len(results) :
          /\ results[i].image_path = InPath(image_files[i])
          /\ ~results[i].success => results[i].error # None
    /\ report # None =>
          /\ report[1].results = results
          /\ Len(results) = Len(image_files)

C6_Witness ==
    /\ report # None
    /\ Len(results) = 2
    /\ ~results[1].success /\ results[1].error = Some("m1")
    /\ results[2].success

\* position of an image in the discovered list
IndexOf(name) == CHOOSE i \in 1..Len(image_files) : image_files[i] = name

\* C7: images are processed one at a time in sorted discovery order: the
\* discovered list is strictly increasing by name, every extract_text call and
\* every wait of an image comes after the result of the previous image was
\* recorded and before anything of a later image, and results[i] is for the
\* i-th discovered image.
C7_SequentialSortedOrder ==
    /\ \A i, j \in 1..Len(image_files) : i < j => StrLess(image_files[i], image_files[j])
    /\ \A p \in 1..Len(log) :
          /\ \E i \in 1..Len(image_files) : image_files[i] = log[p].image
          /\ IndexOf(log[p].image) <= Len(results) + 1
          /\ p < Len(log) => IndexOf(log[p].image) <= IndexOf(log[p+1].image)
    /\ pc = "attempt" => (idx = Len(results) + 1 /\ \A p \in 1..Len(log) : IndexOf(log[p].image) <= idx)
    /\ \A i \in 1..Len(results) : results[i].image_path = InPath(image_files[i])

C7_Witness ==
    /\ pc = "returned"
    /\ image_files = <<Name_B_PNG, Name_a_jpg>>
    /\ Len(results) = 2
    /\ results[1].attempts = 3 /\ results[2].attempts = 2
    /\ Len(log) = 8

\* ------------------------------------------------------------------------
\* Backoff
\* ------------------------------------------------------------------------
Backoffs(n) == [i \in 1..n |-> 2 ^ (i - 1)]

\* C8: after failed attempt a < max_retries the processor waits 2^(a-1) before
\* attempt a+1; it does not wait after the final attempt nor after a successful
\* one, so an item that always fails incurs max_retries - 1 waits.
C8_ExponentialBackoff ==
    /\ \A p \in 1..Len(log) :
          log[p].op = "sleep" =>
             /\ p > 1
             /\ log[p-1].op = "extract_text"
             /\ log[p-1].image = log[p].image
             /\ log[p-1].arg < MaxRetries
             /\ log[p].arg = 2 ^ (log[p-1].arg - 1)
    /\ \A p \in 1..(Len(log) - 1) :
          (log[p].op = "extract_text" /\ log[p+1].op = "extract_text")
             => log[p].image # log[p+1].image
    /\ JustReturned =>
          /\ Len(log) > 0 => log[Len(log)].op = "extract_text"
          /\ SleepsIn(log, CurrentName) =
                IF CurrentResult.success THEN Backoffs(CurrentResult.attempts - 1)
                ELSE IF MaxRetries >= 1 THEN Backoffs(MaxRetries - 1)
                ELSE <<>>

C8_Witness ==
    /\ JustReturned /\ MaxRetries = 3
    /\ ~CurrentResult.success
    /\ SleepsIn(log, CurrentName) = <<1, 2>>

\* the attempts of the current image with the exception type forgotten
Pattern == [i \in 1..Len(hist) |-> hist[i].kind = "ok"]

FirstOk(p) == CHOOSE i \in 1..Len(p) : p[i] /\ \A j \in 1..(i-1) : ~p[j]

\* C9: an unexpected exception is retried and backed off exactly like an
\* ExtractionError: success, attempts, the number of extract_text calls and
\* the waits are determined by which attempts failed, not by the exception
\* type, and a failed result's error is the message of the exception raised
\* by the last attempt.
C9_UnexpectedTreatedAlike ==
    JustReturned =>
        LET p == Pattern
            won == \E i \in 1..Len(p) : p[i]
            n == IF won THEN FirstOk(p) ELSE MaxRetries
        IN /\ CurrentResult.success = won
           /\ CurrentResult.attempts = n
           /\ Len(p) = n
           /\ CallsFor(CurrentName) = n
           /\ SleepsIn(log, CurrentName) =
                 Backoffs(IF won THEN n - 1 ELSE IF n >= 1 THEN n - 1 ELSE 0)
           /\ (~won /\ n >= 1) => CurrentResult.error = Some(hist[n].msg)

C9_Witness ==
    /\ JustReturned /\ MaxRetries = 3
    /\ Len(hist) = 3
    /\ hist[1].kind = "Exception" /\ hist[2].kind = "ExtractionError"
    /\ hist[3].kind = "Exception" /\ hist[3].msg = "unexpected"
    /\ ~CurrentResult.success /\ CurrentResult.error = Some("unexpected")
    /\ SleepsIn(log, CurrentName) = <<1, 2>>

\* ------------------------------------------------------------------------
\* Pipeline stages
\* ------------------------------------------------------------------------
StageOrder == <<"initialize", "create_engine", "discover", "process", "report">>

\* C10: the stages run in the order initialize, create_engine, discover,
\* process, report; a stage starts only when the previous stage has completed
\* without error, each stage runs at most once, and none is entered again.
C10_StagesInOrder ==
    [][ /\ stage_log' # stage_log =>
            /\ Len(stage_log) < Len(StageOrder)
            /\ stage_log' = SubSeq(StageOrder, 1, Len(stage_log) + 1)
            /\ flow_error = None
            /\ Len(stage_log) >= 1 => flow_pc = Completed(stage_log[Len(stage_log)])
        /\ flow_pc' # flow_pc =>
            \/ flow_pc' = "aborted"
            \/ /\ flow_pc' = "processing"
               /\ stage_log' = SubSeq(StageOrder, 1, 4)
            \/ /\ stage_log' # <<>>
               /\ flow_pc' = Completed(stage_log'[Len(stage_log')])
      ]_vars

C10_Witness ==
    /\ flow_pc = "reported"
    /\ stage_log = StageOrder
    /\ flow_result # None

\* ------------------------------------------------------------------------
\* Pipeline stages: failures
\* ------------------------------------------------------------------------

\* C11: when the initialize or the create_engine stage fails, the run aborts
\* with that one error before any processing: nothing runs after the error,
\* and up to and including the failing stage extract_text is not called, no
\* output file is written, the output directory is not created, the counters
\* and the results list of the state keep their initial values and no
\* BatchReport is returned.
C11_EarlyFailureAborts ==
    [][ /\ (flow_error # None /\ Len(stage_log) <= 2) => UNCHANGED vars
        /\ flow_pc \in {"start", "initialized"} =>
              /\ output_dir' = output_dir
              /\ image_dir' = image_dir
              /\ log' = <<>>
              /\ pc' = "idle"
              /\ processor' = None
              /\ results' = <<>>
              /\ report' = None
              /\ flow_result' = None
              /\ state' = InitialState(state.engine_type, state.engine_config)
              /\ flow_error' # None =>
                    /\ flow_pc' = "aborted"
                    /\ flow_error = None
                    /\ flow_error' = Some(IF flow_pc = "start" THEN "ValidationError"
                                          ELSE "ConfigurationError")
      ]_vars

C11_Witness ==
    /\ flow_pc = "aborted"
    /\ stage_log = <<"initialize", "create_engine">>
    /\ flow_error = Some("ConfigurationError")
    /\ validate_calls = 1
    /\ output_dir.kind = "absent"
    /\ log = <<>> /\ report = None /\ flow_result = None

\* a regular file directly in the directory with one of the image extensions
HasDiscoverableImage(directory) ==
    \E e \in directory.entries :
        /\ e.is_file
        /\ \E i \in 1..Len(DefaultExtensions) :
              LowerStr(Suffix(e.name)) = DefaultExtensions[i]

\* C12: the initialize stage raises ValidationError when the input directory
\* does not exist, or the input path is not a directory, or the engine-type
\* tag is none of the factory's tags, or the input directory holds no
\* discoverable image, or the output path exists and is not a directory; it
\* completes when none of these holds.
C12_InitializeValidates ==
    stage_log = <<"initialize">> =>
        IF \/ image_dir.kind = "absent"
           \/ image_dir.kind = "file"
           \/ state.engine_type \notin {"docling", "llm", "api", "passthrough"}
           \/ ~HasDiscoverableImage(image_dir)
           \/ output_dir.kind = "file"
        THEN flow_pc = "aborted" /\ flow_error = Some("ValidationError")
        ELSE flow_pc = "initialized" /\ flow_error = None

C12_Witness ==
    /\ stage_log = <<"initialize">>
    /\ image_dir.kind = "dir" /\ HasDiscoverableImage(image_dir)
    /\ state.engine_type = "passthrough"
    /\ output_dir.kind = "file"
    /\ flow_pc = "aborted" /\ flow_error = Some("ValidationError")

RecognizedTags == {"docling", "llm", "api", "passthrough"}

\* the config variant each tag expects
ExpectedVariant(tag) ==
    CASE tag = "docling" -> "DoclingConfig"
      [] tag = "llm" -> "LLMConfig"
      [] tag = "api" -> "APIConfig"
      [] tag = "passthrough" -> "PassthroughConfig"

\* create_engine has been called and has returned or raised
Created == call # None /\ call[1].op = "create_engine" /\ ret # None

\* C14: for an unrecognized tag create_engine raises, whatever the config, a
\* ValueError that names the tag and lists the supported tags; it is the
\* unsupported-tag error and not the config-variant error, and no engine is
\* built.
C14_UnrecognizedTagRejected ==
    (Created /\ call[1].engine_type \notin RecognizedTags) =>
        /\ ret[1].engine = None
        /\ ret[1].raised # None
        /\ ret[1].raised[1].type = "ValueError"
        /\ ret[1].raised[1].about = "Unsupported engine type"
        /\ ret[1].raised[1].tag = call[1].engine_type
        /\ ret[1].raised[1].supported = <<"docling", "llm", "api", "passthrough">>

C14_Witness ==
    /\ Created
    /\ call[1].engine_type = "tesseract"
    /\ call[1].config.variant = "DoclingConfig"
    /\ ret[1].raised # None
    /\ ret[1].raised[1].tag = "tesseract"

\* C15: for a recognized tag and a config of another variant than the one
\* the tag expects, create_engine raises a ValueError naming the required
\* variant and builds no engine.
C15_MismatchedConfigRejected ==
    (/\ Created /\ call[1].engine_type \in RecognizedTags
     /\ call[1].config.variant # ExpectedVariant(call[1].engine_type)) =>
        /\ ret[1].engine = None
        /\ ret[1].raised # None
        /\ ret[1].raised[1].type = "ValueError"
        /\ ret[1].raised[1].about = "requires"
        /\ ret[1].raised[1].tag = call[1].engine_type
        /\ ret[1].raised[1].requires = ExpectedVariant(call[1].engine_type)

C15_Witness ==
    /\ Created
    /\ call[1].engine_type = "docling"
    /\ call[1].config.variant = "LLMConfig"
    /\ ret[1].engine = None
    /\ ret[1].raised # None
    /\ ret[1].raised[1].requires = "DoclingConfig"

\* C16: for a recognized tag and a config of the variant the tag expects,
\* create_engine returns the engine of that tag, holding the config that was
\* passed in.
C16_MatchingConfigBuildsEngine ==
    (/\ Created /\ call[1].engine_type \in RecognizedTags
     /\ call[1].config.variant = ExpectedVariant(call[1].engine_type)) =>
        /\ ret[1].raised = None
        /\ ret[1].engine # None
        /\ ret[1].engine[1].type = call[1].engine_type
        /\ ret[1].engine[1].config = Some(call[1].config)

C16_Witness ==
    /\ Created
    /\ call[1].engine_type = "api"
    /\ call[1].config = [variant |-> "APIConfig",
                         payload |-> {"model_name", "api_url", "api_key", "max_retries=1"}]
    /\ ret[1].engine # None
    /\ ret[1].engine[1].type = "api"

\* C17: create_engine only constructs the engine: the step leaves the
\* registry, the config it was given and everything else unchanged, makes no
\* validate_config and no extract_text call, and the engine it returns has
\* not been initialized by either.
C17_FactoryOnlyConstructs ==
    [][ (call # None /\ call[1].op = "create_engine") =>
            /\ registry' = registry
            /\ call' = call
            /\ validate_calls' = validate_calls
            /\ log' = log
            /\ UNCHANGED <<envVars, procVars, flowVars>>
            /\ (ret' # None /\ ret'[1].engine # None) =>
                  /\ ret'[1].engine[1].converter = None
                  /\ ret'[1].engine[1].config = Some(call[1].config)
      ]_vars

C17_Witness ==
    /\ Created
    /\ call[1].engine_type = "docling"
    /\ ret[1].engine # None
    /\ ret[1].engine[1].converter = None
    /\ validate_calls = 0 /\ log = <<>>
    /\ registry = <<"docling", "llm", "api", "passthrough">>

\* C18: get_supported_engines returns exactly the four tags docling, llm,
\* api, passthrough, each once, and create_engine rejects a tag as
\* unsupported exactly when the tag is none of them.
C18_SupportedEngines ==
    /\ (call # None /\ call[1].op = "get_supported_engines" /\ ret # None) =>
          /\ ret[1].raised = None
          /\ Len(ret[1].value) = 4
          /\ {ret[1].value[i] : i \in 1..4} = {"docling", "llm", "api", "passthrough"}
    /\ Created =>
          ((ret[1].raised # None /\ ret[1].raised[1].about = "Unsupported engine type")
             <=> ~InList(call[1].engine_type, get_supported_engines))
    /\ \A i \in 1..Len(get_supported_engines) :
          get_supported_engines[i] \in RecognizedTags

C18_Witness ==
    /\ call # None /\ call[1].op = "get_supported_engines"
    /\ ret # None
    /\ ret[1].value = <<"docling", "llm", "api", "passthrough">>

\* ------------------------------------------------------------------------
\* File helpers
\* ------------------------------------------------------------------------

\* discover_images has been called and has returned or raised
Discovered == call # None /\ call[1].op = "discover_images" /\ ret # None

\* the extension of a name is in the list, letter case ignored
ExtensionIn(name, extensions) ==
    \E i \in 1..Len(extensions) : LowerStr(Suffix(name)) = LowerStr(extensions[i])

\* C19: discover_images(D, E) raises if D does not exist or is not a
\* directory; otherwise it returns exactly the regular files directly in D
\* whose extension is in E, letter case ignored, each once and in increasing
\* order of name, and neither a subdirectory nor an entry of a subdirectory.
C19_DiscoverImages ==
    Discovered =>
        IF image_dir.kind # "dir"
        THEN ret[1].raised = Some("ValueError")
        ELSE LET v == ret[1].value
                 E == call[1].supported_extensions
             IN /\ ret[1].raised = None
                /\ {v[i] : i \in 1..Len(v)} =
                      {e.name : e \in {f \in image_dir.entries :
                                          f.is_file /\ ExtensionIn(f.name, E)}}
                /\ \A i, j \in 1..Len(v) : i < j => StrLess(v[i], v[j])
                /\ \A e \in image_dir.entries : ~e.is_file =>
                      \A i \in 1..Len(v) : v[i] # e.name /\ v[i] \notin e.children

C19_Witness ==
    /\ Discovered
    /\ image_dir = [kind |-> "dir",
                    entries |-> {File(Name_B_PNG), Subdirectory(Name_d_jpg, {Name_e_png})}]
    /\ call[1].supported_extensions = << <<".", "j", "p", "g">>, <<".", "p", "n", "g">> >>
    /\ ret[1].value = <<Name_B_PNG>>

\* generate_output_filename has been called and has returned
Generated == call # None /\ call[1].op = "generate_output_filename" /\ ret # None

HasDot(name) == \E i \in 1..Len(name) : name[i] = "."

\* the name up to its final extension: the part before the last dot, when
\* that dot is neither the first nor the last character
ExpectedStem(name) ==
    IF \E i \in 2..(Len(name) - 1) : name[i] = "." /\ \A j \in (i+1)..Len(name) : name[j] # "."
    THEN SubSeq(name, 1,
                (CHOOSE i \in 2..(Len(name) - 1) :
                    name[i] = "." /\ \A j \in (i+1)..Len(name) : name[j] # ".") - 1)
    ELSE name

\* C20: generate_output_filename returns the stem of the name followed by
\* ".txt" by default, or by the requested extension with a dot put in front
\* only when it has none ("md" and ".md" give the same name); a name with
\* several dots loses only its final extension and a name without extension
\* is kept whole.
C20_OutputFilenameKeepsStem ==
    Generated =>
        LET n == call[1].image_path
            x == call[1].output_extension
            out == ret[1].value
        IN /\ ret[1].raised = None
           /\ x = None => out = ExpectedStem(n) \o <<".", "t", "x", "t">>
           /\ x # None =>
                 out = ExpectedStem(n) \o
                         (IF Len(x[1]) > 0 /\ x[1][1] = "." THEN x[1] ELSE <<".">> \o x[1])
           /\ x \in {Some(<<"m", "d">>), Some(<<".", "m", "d">>)} =>
                 out = ExpectedStem(n) \o <<".", "m", "d">>
           /\ n = Name_a_b_png => SubSeq(out, 1, 4) = <<"a", ".", "b", ".">>
           /\ ~HasDot(n) => SubSeq(out, 1, Len(n) + 1) = n \o <<".">>

C20_Witness ==
    /\ Generated
    /\ call[1].image_path = Name_a_b_png
    /\ call[1].output_extension = Some(<<"m", "d">>)
    /\ ret[1].value = <<"a", ".", "b", ".", "m", "d">>

\* ------------------------------------------------------------------------
\* Output files
\* ------------------------------------------------------------------------

\* the texts extract_text can return for an image
TextsFor(name) ==
    {e.text : e \in {o \in ExtractOutcomes(processor[1].engine, name) : o.kind = "ok"}}

\* C21: after process_batch has returned, every successful result's
\* output_path is a file <stem>.txt of the output directory whose content is
\* the text extracted for that image, and distinct successful images have
\* distinct output files.
C21_OneFilePerSuccess ==
    (report # None /\ pc = "returned") =>
        /\ \A i \in 1..Len(results) :
              results[i].success =>
                 /\ results[i].output_path[1].dir = "output_dir"
                 /\ results[i].output_path[1].name =
                       ExpectedStem(image_files[i]) \o <<".", "t", "x", "t">>
                 /\ \E f \in output_dir.files :
                       /\ f.name = results[i].output_path[1].name
                       /\ f.text \in TextsFor(image_files[i])
        /\ \A i, j \in 1..Len(results) :
              (i # j /\ results[i].success /\ results[j].success)
                 => results[i].output_path # results[j].output_path

\* C22: process_batch ensures the output directory first: a missing output
\* path is created, with its missing parent, before discovery (also when
\* discovery then raises) and before any extract_text call; an existing
\* directory keeps its contents in that step; with a file at the path
\* process_batch raises, no extract_text call is ever made and no report is
\* produced.
C22_OutputDirectoryEnsured ==
    /\ [](output_dir.kind = "file" =>
             (log = <<>> /\ report = None /\ pc \in {"idle", "raised"}))
    /\ [][ /\ calls' # calls =>
               /\ log' = log
               /\ IF output_dir.kind = "file"
                  THEN pc' = "raised" /\ output_dir' = output_dir
                  ELSE IF output_dir.kind = "dir"
                  THEN output_dir' = output_dir
                  ELSE /\ output_dir'.kind = "dir"
                       /\ output_dir'.parent = "dir"
                       /\ output_dir'.files = {}
           /\ log' # log => (output_dir.kind = "dir" /\ output_dir.parent = "dir")
           /\ (output_dir'.kind # output_dir.kind \/ output_dir'.parent # output_dir.parent)
                 => calls' # calls
          ]_vars

C22_Witness ==
    /\ calls = 2
    /\ pc = "raised"
    /\ output_dir.kind = "file"
    /\ image_dir.kind = "dir" /\ HasDiscoverableImage(image_dir)
    /\ log = <<>> /\ report = None

\* ------------------------------------------------------------------------
\* Empty batches and the success rate
\* ------------------------------------------------------------------------

\* the run, a direct process_batch call or a pipeline run, is over
RunOver ==
    IF flow_pc = "none" THEN pc \in {"returned", "raised"}
    ELSE flow_pc \in {"aborted", "reported"}

\* the report handed to the caller of the run, if any
RunReport == IF flow_pc = "none" THEN report ELSE flow_result

\* the extensions the run discovers images with
RunExtensions ==
    IF flow_pc = "none" THEN processor[1].supported_extensions ELSE DefaultExtensions

\* the input directory exists and holds no regular file with such an extension
NothingToDiscover ==
    /\ image_dir.kind = "dir"
    /\ ~\E e \in image_dir.entries : e.is_file /\ ExtensionIn(e.name, RunExtensions)

IsEmptyReport(r) ==
    /\ r.total_images = 0 /\ r.successful = 0 /\ r.failed = 0
    /\ r.results = <<>>
    /\ success_rate(r) = Quotient(0, 1)

\* C23 as stated: end to end, with an input directory holding no discoverable
\* image (and nothing else wrong: a usable output path and a recognized
\* engine tag), the run yields a report with total_images = 0, successful =
\* 0, failed = 0, success_rate = 0.0 and no results, and extract_text is
\* never called.
C23_EmptyDirectoryReport_AsStated ==
    (/\ RunOver /\ NothingToDiscover
     /\ output_dir.kind # "file"
     /\ state.engine_type \in RecognizedTags) =>
        /\ RunReport # None
        /\ IsEmptyReport(RunReport[1])
        /\ log = <<>>

\* C23 amended: process_batch called on a Batch Processor yields that empty
\* report without calling extract_text; a pipeline run on such a directory
\* aborts in the initialize stage with ValidationError and returns no report.
C23_EmptyDirectoryReport ==
    (RunOver /\ NothingToDiscover /\ output_dir.kind # "file") =>
        IF flow_pc = "none"
        THEN /\ pc = "returned"
             /\ report # None
             /\ IsEmptyReport(report[1])
             /\ log = <<>>
        ELSE /\ flow_pc = "aborted"
             /\ stage_log = <<"initialize">>
             /\ flow_error = Some("ValidationError")
             /\ flow_result = None /\ report = None
             /\ log = <<>>

C23_Witness ==
    /\ flow_pc = "none" /\ pc = "returned"
    /\ image_dir = [kind |-> "dir",
                    entries |-> {File(Name_c_txt), Subdirectory(Name_d_jpg, {Name_e_png})}]
    /\ report # None
    /\ report[1].total_images = 0
    /\ output_dir.kind = "dir"

\* C24: success_rate() of a report is successful / total_images when
\* total_images > 0 and 0.0 when total_images = 0; for every report that
\* process_batch produced the value lies between 0 and 1 inclusive.
C24_SuccessRate ==
    (call # None /\ ret # None) =>
        LET r == call[1].report
            v == ret[1]
        IN /\ v.raised = None
           /\ v.den > 0
           /\ r.total_images > 0 => v.num * r.total_images = r.successful * v.den
           /\ r.total_images = 0 => v.num = 0
           /\ 0 <= v.num /\ v.num <= v.den

C24_Witness ==
    /\ call # None /\ ret # None
    /\ call[1].report = report[1]
    /\ report[1].total_images = 2 /\ report[1].successful = 1
    /\ ret[1] = Quotient(1, 2)
    /\ calls = 2

\* ------------------------------------------------------------------------
\* The report of a pipeline run
\* ------------------------------------------------------------------------
SameResult(a, b) ==
    /\ a.image_path = b.image_path
    /\ a.success = b.success
    /\ a.output_path = b.output_path
    /\ a.error = b.error
    /\ a.attempts = b.attempts
    /\ a.processing_time = b.processing_time

\* C25: a completed pipeline run returns the full BatchReport: its results
\* are, in the same order, the results the process stage obtained from
\* process_batch, with every field preserved through the dict form kept in
\* the state, the error of a failed item included; and
\* successful + failed = total_images = len(results).
C25_PipelineReport ==
    flow_pc = "reported" =>
        /\ flow_result # None /\ report # None
        /\ LET out == flow_result[1]
               got == report[1]
           IN /\ Len(out.results) = Len(got.results)
              /\ \A i \in 1..Len(out.results) :
                    /\ SameResult(out.results[i], got.results[i])
                    /\ SameResult(out.results[i], state.results[i])
                    /\ ~out.results[i].success =>
                          /\ out.results[i].error # None
                          /\ out.results[i].attempts = FlowMaxRetries
              /\ out.successful = got.successful /\ out.failed = got.failed
              /\ out.successful + out.failed = out.total_images
              /\ out.total_images = Len(out.results)

C25_Witness ==
    /\ flow_pc = "reported"
    /\ flow_result # None
    /\ Len(flow_result[1].results) = 2
    /\ flow_result[1].results[1].success
    /\ ~flow_result[1].results[2].success
    /\ flow_result[1].results[2].error = Some("m2")
    /\ flow_result[1].failed = 1 /\ flow_result[1].successful = 1

\* ------------------------------------------------------------------------
\* The process stage
\* ------------------------------------------------------------------------
StageEntered(stage) == \E i \in 1..Len(stage_log) : stage_log[i] = stage

FailedIn(rs) == Cardinality({i \in 1..Len(rs) : ~rs[i].success})

\* C26: once initialize, create_engine and discover have succeeded, the
\* process stage never fails, whatever the engine does on each image: the
\* run is never aborted in it, every step of it can be followed by another
\* up to the report stage, and the failures of items are recorded in the
\* results and counters of the state.
C26_ProcessStageNeverFails ==
    /\ StageEntered("process") => (flow_pc # "aborted" /\ pc # "raised" /\ flow_error = None)
    /\ flow_pc = "discovered" => ENABLED ProcessImages
    /\ flow_pc = "processing" =>
          ENABLED (BeginImage \/ Attempt \/ Exhausted \/ ProcessImagesFinish)
    /\ flow_pc = "processed" => ENABLED GenerateReport
    /\ flow_pc \in {"processed", "reported"} =>
          /\ Len(state.results) = state.total_images
          /\ state.processed_images = state.total_images
          /\ state.failed = FailedIn(state.results)
          /\ state.successful = Len(state.results) - FailedIn(state.results)
          /\ \A i \in 1..Len(state.results) :
                ~state.results[i].success => state.results[i].error # None

C26_Witness ==
    /\ flow_pc = "reported"
    /\ state.failed = 2 /\ state.successful = 0
    /\ Len(state.results) = 2
    /\ state.results[1].error = Some("OSError")
    /\ state.results[2].error = Some("m2")
    /\ flow_error = None

\* ------------------------------------------------------------------------
\* Repeated calls of process_batch
\* ------------------------------------------------------------------------
SameEntry(a, b) ==
    /\ a.image_path = b.image_path
    /\ a.success = b.success
    /\ a.attempts = b.attempts

\* the report of the previous call (still held by the caller) and the one
\* being returned agree on the counts and on the entries of the results
SameOutcome(old, new) ==
    /\ new.total_images = old.total_images
    /\ new.successful = old.successful
    /\ new.failed = old.failed
    /\ Len(new.results) = Len(old.results)
    /\ \A i \in 1..Len(new.results) : SameEntry(new.results[i], old.results[i])

\* C27: the Batch Processor retains no state between calls of process_batch:
\* a second call on the same processor, directory and deterministic engine
\* returns a report with the same total_images, successful, failed and
\* result entries (image_path, success, attempts) as the first, and its
\* counts cover the images of that call only.
C27_NoStateBetweenCalls ==
    [][ (pc = "loop" /\ pc' = "returned" /\ report # None) =>
            /\ calls >= 2
            /\ SameOutcome(report[1], report'[1])
            /\ report'[1].successful + report'[1].failed = Len(image_files)
      ]_vars

C27_Witness ==
    /\ calls = 2 /\ pc = "returned"
    /\ report # None
    /\ report[1].total_images = 2
    /\ report[1].successful = 1 /\ report[1].failed = 1
    /\ report[1].results[2].attempts = 3
    /\ ~report[1].results[2].success

\* ------------------------------------------------------------------------
\* The state fields each stage writes
\* ------------------------------------------------------------------------
StateFields ==
    {"image_dir", "output_dir", "engine_type", "engine_config", "total_images",
     "processed_images", "successful", "failed", "results"}

\* the fields the stage running at the given position of the run may write
Designated(position) ==
    CASE position = "engine_created" -> {"total_images"}
      [] position \in {"discovered", "processing"} ->
            {"processed_images", "successful", "failed", "results"}
      [] OTHER -> {}

\* C28: initialize and create_engine write no field of the state, discover
\* writes only total_images, process writes only processed_images,
\* successful, failed and results, report writes none; image_dir,
\* output_dir, engine_type and engine_config are never changed.
C28_StageWritesOwnFields ==
    [][ /\ DOMAIN state' = StateFields
        /\ \A f \in StateFields : state'[f] # state[f] => f \in Designated(flow_pc)
        /\ \A f \in {"image_dir", "output_dir", "engine_type", "engine_config"} :
              state'[f] = state[f]
      ]_vars

C28_Witness ==
    /\ flow_pc = "reported"
    /\ state.engine_type = "docling"
    /\ state.total_images = 2 /\ state.processed_images = 2
    /\ state.successful = 1 /\ state.failed = 1
    /\ Len(state.results) = 2

\* ------------------------------------------------------------------------
\* The error of an exhausted item
\* ------------------------------------------------------------------------

\* C30: when all attempts for an image are exhausted, the error of the
\* returned result is the message of the failure of the last, max_retries-th,
\* attempt, also when earlier attempts failed with other messages.
C30_LastErrorReported ==
    (JustReturned /\ ~CurrentResult.success /\ MaxRetries >= 1) =>
        /\ Len(hist) = MaxRetries
        /\ \A i \in 1..Len(hist) : hist[i].kind # "ok"
        /\ CurrentResult.error = Some(hist[MaxRetries].msg)

C30_Witness ==
    /\ JustReturned /\ ~CurrentResult.success
    /\ MaxRetries = 3 /\ Len(hist) = 3
    /\ hist[1].msg = "m2" /\ hist[2].msg = "OSError" /\ hist[3].msg = "m1"
    /\ CurrentResult.error = Some("m1")

\* ------------------------------------------------------------------------
\* BatchProcessorConfig
\* ------------------------------------------------------------------------
Constructed == call # None /\ call[1].op = "BatchProcessorConfig" /\ ret # None

\* C29: a BatchProcessorConfig exists only with an engine_config whose
\* variant matches engine_type and with max_retries >= 0: a mismatched
\* variant, an unrecognized tag or a negative max_retries is rejected by the
\* constructor, and an accepted object holds the arguments as they were
\* given, not coerced.
C29_ConfigValidated ==
    Constructed =>
        /\ (\/ call[1].engine_type \notin RecognizedTags
            \/ call[1].engine_config.variant # ExpectedVariant(call[1].engine_type)
            \/ (call[1].max_retries # None /\ call[1].max_retries[1] < 0)) =>
               (ret[1].value = None /\ ret[1].raised = Some("ValidationError"))
        /\ ret[1].value # None =>
               LET config == ret[1].value[1]
               IN /\ ret[1].raised = None
                  /\ config.engine_type \in RecognizedTags
                  /\ config.engine_config.variant = ExpectedVariant(config.engine_type)
                  /\ config.max_retries >= 0
                  /\ config.engine_type = call[1].engine_type
                  /\ config.engine_config = call[1].engine_config
                  /\ call[1].max_retries # None =>
                        config.max_retries = call[1].max_retries[1]

C29_Witness ==
    /\ Constructed
    /\ call[1].image_dir = "/path" /\ call[1].output_dir = "/path"
    /\ call[1].engine_type = "docling"
    /\ call[1].engine_config.variant = "LLMConfig"
    /\ call[1].max_retries = Some(0)
    /\ ret[1].value = None
    /\ ret[1].raised = Some("ValidationError")

\* ------------------------------------------------------------------------
\* Termination of a pipeline run
\* ------------------------------------------------------------------------

\* C31: every pipeline run terminates: it eventually either completes the
\* report stage, returning a BatchReport, or is aborted with a validation or
\* configuration error; it does not stop in an intermediate stage, and it is
\* aborted for no other reason.
C31_RunTerminates ==
    /\ <>(flow_pc \in {"reported", "aborted"})
    /\ [](flow_pc = "reported" => (flow_result # None /\ flow_error = None))
    /\ [](flow_pc = "aborted" =>
             /\ flow_result = None
             /\ flow_error \in {Some("ValidationError"), Some("ConfigurationError")})

C31_Witness ==
    /\ flow_pc = "reported"
    /\ flow_result # None
    /\ flow_result[1].total_images = 2
    /\ flow_result[1].failed = 2
    /\ clock = 6

\* ------------------------------------------------------------------------
\* The converter cache of the Docling engine
\* ------------------------------------------------------------------------
Built(l) == Cardinality({i \in 1..Len(l) : l[i].op = "DocumentConverter"})

\* C32: over any sequence of validate_config and extract_text calls on one
\* Docling engine the converter is constructed at most once; once it is
\* cached it is kept and no call constructs another; a call in which the
\* construction fails raises ConfigurationError and leaves the cache empty.
C32_ConverterCachedOnce ==
    /\ [](/\ Built(log) <= 1
          /\ flow_engine # None => (flow_engine[1].converter # None <=> Built(log) = 1))
    /\ [][ calls' # calls =>
             /\ flow_engine[1].converter # None =>
                   /\ flow_engine'[1].converter = flow_engine[1].converter
                   /\ Built(log') = 1
             /\ flow_engine'[1].converter = None =>
                   (ret'[1].kind = "ConfigurationError" /\ Built(log') = 0)
             /\ ret'[1].kind = "ConfigurationError" =>
                   (flow_engine'[1].converter = None /\ flow_engine[1].converter = None)
         ]_vars

C32_Witness ==
    /\ calls = 4
    /\ flow_engine # None
    /\ Len(log) = 5
    /\ log[1].op = "extract_text" /\ log[2].op = "validate_config"
    /\ log[3].op = "DocumentConverter"
    /\ log[4].op = "extract_text" /\ log[5].op = "validate_config"
    /\ flow_engine[1].converter # None
    /\ ret[1].kind = "ok"

\* ------------------------------------------------------------------------
\* The number of engine calls
\* ------------------------------------------------------------------------
ExtractCalls == Cardinality({i \in 1..Len(log) : log[i].op = "extract_text"})

RECURSIVE SumAttempts(_)
SumAttempts(rs) == IF rs = <<>> THEN 0 ELSE rs[1].attempts + SumAttempts(Tail(rs))

\* C33: within one process_batch call extract_text is called at most
\* max_retries times per discovered image and never again for an image after
\* an attempt of it succeeded (a successful attempt is the last one of its
\* image, and the calls of a finished image stay at its attempts); the total
\* number of calls is at most total_images * max_retries and is the sum of
\* the attempts of the results.
C33_EngineCallsBounded ==
    processor # None =>
        /\ \A i \in 1..Len(image_files) : CallsFor(image_files[i]) <= MaxRetries
        /\ \A i \in 1..Len(results) : CallsFor(image_files[i]) = results[i].attempts
        /\ \A i \in 1..Len(hist) : hist[i].kind = "ok" => (i = Len(hist) /\ pc # "attempt")
        /\ \A i \in 1..Len(image_files) : i > idx => CallsFor(image_files[i]) = 0
        /\ ExtractCalls <= Len(image_files) * MaxRetries
        /\ pc = "returned" => ExtractCalls = SumAttempts(results)

C33_Witness ==
    /\ processor # None /\ pc = "returned"
    /\ MaxRetries = 3
    /\ Len(results) = 2
    /\ results[1].success /\ results[1].attempts = 2
    /\ ~results[2].success
    /\ ExtractCalls = 5

\* ------------------------------------------------------------------------
\* A failed write
\* ------------------------------------------------------------------------

\* the step is an attempt whose extraction returned and whose write failed
WriteFailedStep ==
    /\ pc = "attempt"
    /\ Len(hist') = Len(hist) + 1
    /\ hist'[Len(hist')].kind = "OSError"

\* C34: a failure of the write after a successful extraction is a failed
\* attempt of the retry loop: no result is returned by it, the attempt
\* counter advances, the backoff of that attempt is slept if attempts remain
\* (and a further extract_text call follows), none if not; and a result is
\* successful only if the extraction and the write of its last attempt both
\* succeeded.
C34_WriteFailureIsFailedAttempt ==
    /\ [][ WriteFailedStep =>
             /\ pc' = "attempt" /\ attempt' = attempt + 1
             /\ results' = results /\ output_dir' = output_dir
             /\ last_error' = Some("OSError")
             /\ IF attempt < MaxRetries
                THEN /\ clock' = clock + 2 ^ (attempt - 1)
                     /\ log'[Len(log')] = [op |-> "sleep", image |-> CurrentName,
                                           arg |-> 2 ^ (attempt - 1)]
                ELSE clock' = clock /\ log'[Len(log')].op = "extract_text"
         ]_vars
    /\ []((pc = "attempt" /\ attempt <= MaxRetries) => ENABLED Attempt)
    /\ [](JustReturned =>
             /\ CallsFor(CurrentName) = Len(hist)
             /\ CurrentResult.success <=>
                   (Len(hist) >= 1 /\ hist[Len(hist)].kind = "ok")
             /\ \A i \in 1..Len(hist) : hist[i].kind = "OSError" =>
                   \/ i = Len(hist) /\ ~CurrentResult.success
                   \/ i < Len(hist) /\ SleepsIn(log, CurrentName)[i] = 2 ^ (i - 1))

C34_Witness ==
    /\ JustReturned /\ CurrentResult.success
    /\ Len(hist) = 3
    /\ hist[1].kind = "OSError" /\ hist[2].kind = "OSError" /\ hist[3].kind = "ok"
    /\ CurrentResult.attempts = 3
    /\ SleepsIn(log, CurrentName) = <<1, 2>>

\* ------------------------------------------------------------------------
\* Writes to the output directory
\* ------------------------------------------------------------------------

C36_PipelineRetriesFixed ==
    /\ processor # None =>
          /\ processor[1].max_retries = 3
          /\ processor[1].supported_extensions = DefaultExtensions
    /\ flow_result # None =>
          \A i \in 1..Len(flow_result[1].results) :
              LET r == flow_result[1].results[i]
              IN /\ 1 <= r.attempts /\ r.attempts <= 3
                 /\ ~r.success => r.attempts = 3

C36_Witness ==
    /\ flow_pc = "reported"
    /\ "max_retries=1" \in state.engine_config
    /\ Len(flow_result[1].results) = 2
    /\ ~flow_result[1].results[1].success
    /\ flow_result[1].results[1].attempts = 3
    /\ flow_result[1].results[2].attempts = 2

\* ------------------------------------------------------------------------
\* Runs with the llm and api engines
\* ------------------------------------------------------------------------

FactoryOnState ==
    EngineFactory_create_engine(
        state.engine_type,
        create_engine_config(state.engine_type, state.engine_config)[1])

\* C38: once initialize has succeeded, the tag of the state is one that
\* _create_engine_config and the factory both know, and the typed config
\* built from it is of the variant the factory requires for it: the factory
\* raises neither its unsupported-tag nor its mismatch error and
\* _create_engine_config does not reach its unknown-tag branch. A
\* create_engine stage that fails does so on the payload or in
\* validate_config.
C38_TagSetsAgree ==
    (StageEntered("initialize")
       /\ ~(flow_pc = "aborted" /\ stage_log = <<"initialize">>)) =>
        /\ state.engine_type \in {"docling", "llm", "api", "passthrough"}
        /\ InList(state.engine_type, registry)
        /\ create_engine_config(state.engine_type, state.engine_config) = None =>
              ~ConfigAccepts(ConfigVariant(state.engine_type), state.engine_config)
        /\ create_engine_config(state.engine_type, state.engine_config) # None =>
              /\ FactoryOnState.raised = None
              /\ FactoryOnState.engine # None
              /\ FactoryOnState.engine[1].type = state.engine_type
        /\ StageEntered("create_engine") =>
              ((flow_engine = None) <=>
                  create_engine_config(state.engine_type, state.engine_config) = None)

C38_Witness ==
    /\ flow_pc = "engine_created"
    /\ state.engine_type = "passthrough"
    /\ state.engine_config # {}
    /\ flow_engine # None /\ flow_engine[1].type = "passthrough"
    /\ FactoryOnState.raised = None

\* ------------------------------------------------------------------------
\* The counters of the state
\* ------------------------------------------------------------------------

\* C39: throughout a pipeline run the counters of the state are
\* non-negative and processed_images = successful + failed = len(results);
\* they are 0, and results empty, until the process stage has completed, and
\* from then on processed_images is the total_images the discover stage
\* recorded.
C39_StateCounters ==
    /\ state.total_images >= 0 /\ state.processed_images >= 0
    /\ state.successful >= 0 /\ state.failed >= 0
    /\ state.processed_images = state.successful + state.failed
    /\ state.processed_images = Len(state.results)
    /\ flow_pc \notin {"processed", "reported"} =>
          /\ state.processed_images = 0 /\ state.successful = 0 /\ state.failed = 0
          /\ state.results = <<>>
    /\ flow_pc \in {"processed", "reported"} =>
          /\ StageEntered("discover")
          /\ state.processed_images = state.total_images
          /\ state.total_images = Len(discover_images(image_dir, DefaultExtensions))

C39_Witness ==
    /\ flow_pc = "processed"
    /\ state.total_images = 2 /\ state.processed_images = 2
    /\ state.successful = 2 /\ state.failed = 0
    /\ Len(state.results) = 2
    /\ state.results[1].attempts = 3

====
